---- MODULE Spec2Model ----
(***************************************************************************)
(* Model of the sealbridge-repos synchronization core: the RepoSync        *)
(* engine (repoops.py) over the git wrappers (gitwrap.py), the scheduler   *)
(* daemon (daemon.py), the bridge (bridge.py) and the single-repository    *)
(* CLI sync (cli.py).                                                      *)
(*                                                                         *)
(* A commit is the sequence of patch labels on the path from the root      *)
(* commit; its SHA is that sequence.  Ancestry is the prefix order and the *)
(* merge-base of two commits is their longest common prefix.               *)
(***************************************************************************)
EXTENDS Integers, Sequences, FiniteSets, TLC

VARIABLES
    cl,        \* the triple handed to _determine_sync_state and its result
    wc,        \* per repository: the working copy and its two remotes
    bc,        \* per repository: the bridge's personal and relay clones
    run,       \* per process: the RepoSync.sync invocation in progress
    cfgFile,   \* policy.yaml as it is on disk
    host,      \* what the host runs: the scheduler with the CLI, or the bridge
    proc,      \* per process: entry point, position, loaded configuration
    lock,      \* per process family: the holder of its lock file, 0 when free
    cycleCount, \* cycles and CLI sync commands started on the host so far
    fs,        \* the trees and pattern lists handed to the path policy
    cmd,       \* one run_git call: its circumstances and what the caller gets
    scn,       \* one Scanner.scan call: the tool's answer and what is raised
    gc,        \* a git-crypt repository and the calls made on its strategy
    pw         \* one PolicyManager.check_write call of the bootstrap payload

vars == <<cl, wc, bc, run, cfgFile, host, proc, lock, cycleCount, fs, cmd, scn, gc, pw>>

----------------------------------------------------------------------------
(* Bounds *)

MaxDepth == 1      \* longest initial commit path
NumRepos == 2      \* repositories named in a configuration
NumProcs == 2      \* processes started on the host

Labels == {1, 2}
Repos  == 1 .. NumRepos
Procs  == 1 .. NumProcs

None     == "None"
NoSha    == <<0>>       \* no SHA read yet
NoRemote == <<0>>       \* the remote named relay is not configured

RECURSIVE CommitsUpTo(_)
CommitsUpTo(n) ==
    IF n = 0 THEN {<< >>}
    ELSE LET prev == CommitsUpTo(n - 1)
         IN  prev \cup {Append(c, l) : c \in {d \in prev : Len(d) = n - 1}, l \in Labels}

----------------------------------------------------------------------------
(* Commit graph helpers: what `git merge-base` and `git rebase` compute *)

IsAncestor(a, b) == Len(a) <= Len(b) /\ SubSeq(b, 1, Len(a)) = a

RECURSIVE CommonPrefixLen(_, _)
CommonPrefixLen(a, b) ==
    IF a = << >> \/ b = << >> \/ Head(a) # Head(b) THEN 0
    ELSE 1 + CommonPrefixLen(Tail(a), Tail(b))

\* gitwrap.git_get_merge_base: the common ancestor of two commits
git_get_merge_base(c1, c2) == SubSeq(c1, 1, CommonPrefixLen(c1, c2))

RebasedHead_stays(head, upstream) == head

\* the result of a successful `git rebase upstream`: the local commits after
\* the merge-base replayed on top of upstream
RebasedHead(head, upstream) ==
    upstream \o SubSeq(head, CommonPrefixLen(head, upstream) + 1, Len(head))

----------------------------------------------------------------------------
(* repoops.RepoSync._determine_sync_state, lines 75-82 *)

determine_sync_state_swapped(local_sha, remote_sha, base_sha) ==
    IF local_sha = base_sha THEN "BEHIND"
    ELSE IF local_sha = remote_sha THEN "UP_TO_DATE"
    ELSE IF remote_sha = base_sha THEN "AHEAD"
    ELSE "DIVERGED"

determine_sync_state(local_sha, remote_sha, base_sha) ==
    IF local_sha = remote_sha THEN "UP_TO_DATE"
    ELSE IF local_sha = base_sha THEN "BEHIND"
    ELSE IF remote_sha = base_sha THEN "AHEAD"
    ELSE "DIVERGED"

SyncStates == {"UP_TO_DATE", "AHEAD", "BEHIND", "DIVERGED"}

----------------------------------------------------------------------------
(* State *)

\* A working copy: the checked-out branch, uncommitted changes, a rebase left
\* in progress, the local HEAD, the tracking ref origin/<branch>, and the
\* branch heads held by the personal remote (origin) and the relay remote.
Branches == {"main", "feature"}
CleanCopy == [branch |-> "main", dirty |-> FALSE, rebasing |-> FALSE,
              head |-> << >>, track |-> << >>, origin |-> << >>, relay |-> << >>]

\* The policy sections of a configuration (config.py lines 19-50):
\* scan.enable, the protected-branch list in force for the repository and
\* push.allow_force_with_lease, and the path policy in force for the
\* repository (its include and exclude pattern lists).
OpenPaths == [include |-> << >>, exclude |-> << >>]
DefaultPolicy == [scan |-> TRUE, protected_branches |-> {"main", "master"},
                  allow_force_with_lease |-> FALSE, paths |-> OpenPaths]
Policies == [scan : BOOLEAN, protected_branches : {{}, {"main", "master"}},
             allow_force_with_lease : BOOLEAN, paths : {OpenPaths}]

\* policy.is_protected_branch
is_protected_branch(branch, protected_branches) == branch \in protected_branches

\* A bridge clone directory (bridge.py lines 28-30): whether it exists, whose
\* repository metadata it holds, whether `git status -sb` reports it ahead
\* of its tracking branch, and whether it has uncommitted changes.
\* files is the set of relative paths of the files in its working tree.
NoClone == [exists |-> FALSE, meta |-> None, ahead |-> FALSE, dirty |-> FALSE,
            files |-> {}, content |-> None]
FreshClone(side) == [exists |-> TRUE, meta |-> side, ahead |-> FALSE,
                     dirty |-> FALSE, files |-> {}, content |-> "base"]
NoClones == [personal |-> NoClone, relay |-> NoClone]

\* A RepoSync or RepoBridge invocation: its position, the git calls made so
\* far, what it read, the policy of the configuration it was built with and
\* whether one of its pushes carried --force-with-lease.
IdleRun == [pc |-> "idle", repo |-> 0, calls |-> << >>, state |-> None,
            local_sha |-> NoSha, remote_sha |-> NoSha, base_sha |-> NoSha,
            err |-> None, wc0 |-> CleanCopy, dir |-> None,
            policy |-> DefaultPolicy, branch |-> None, forced |-> FALSE,
            bc0 |-> NoClones]

\* a run record at the call of RepoSync.sync; wc0 remembers the working copy
\* the run started from.  The configurations of Configs leave the policy
\* sections at their defaults.
NewRun(r) == [IdleRun EXCEPT !.pc = "pre_sync", !.repo = r, !.wc0 = wc[r]]

IdleCl == [local |-> << >>, remote |-> << >>, base |-> << >>, state |-> None]

\* no tree handed to the path policy
IdleFs == [src |-> {}, dst |-> {}, dst0 |-> {}, include |-> << >>,
           exclude |-> << >>, matched |-> {}, built |-> FALSE, copied |-> FALSE]


\* no CompletedProcess returned
NoProcess == [returncode |-> -1, stdout |-> "", stderr |-> ""]

\* no run_git call
IdleCmd == [cwd_is_dir |-> TRUE, git |-> "found", timed_out |-> FALSE,
            returncode |-> 0, stdout |-> "", stderr |-> "", check |-> TRUE,
            called |-> FALSE, raised |-> None, message |-> << >>,
            result |-> NoProcess]

\* no Scanner.scan call
IdleScn == [scanner |-> "none", tool |-> "report", report |-> << >>,
            called |-> FALSE, raised |-> None, findings |-> << >>]

\* a git-crypt repository no call was made on: whether it is unlocked and
\* whether the user's key material is at hand, then the last call made
\* (op, ran: its command ran to completion, raised, answer), the last
\* unlock call (last_unlock) and what it found (before, had_key)
IdleGc == [unlocked |-> FALSE, key |-> FALSE, ncalls |-> 0, op |-> None,
           ran |-> FALSE, raised |-> None, answer |-> FALSE,
           last_unlock |-> None, before |-> FALSE, had_key |-> FALSE]

\* no check_write call
IdlePw == [include |-> << >>, exclude |-> << >>, path |-> "",
           called |-> FALSE, raised |-> None]

\* config.Config: the profile and, in declared order, the mode of each
\* repository; NoConfig stands for a load that raised ConfigError
Modes    == {"sealed", "plain", "nosync"}
Profiles == {"home", "work"}
\* defaults.interval_sec, and defaults.jitter in hundredths
DefaultInterval  == 60
DefaultJitterPct == 20
NoConfig == [profile |-> None, modes |-> << >>, interval_sec |-> 0, jitter_pct |-> 0]
\* Only the bridge reads the profile, and under any profile but home it
\* reads nothing else, so one configuration stands for the work profile.
\* The configurations of Configs leave interval and jitter at their defaults.
Configs  ==
    {c \in [profile : Profiles, modes : [Repos -> Modes],
            interval_sec : {DefaultInterval}, jitter_pct : {DefaultJitterPct}] :
        c.profile # "home" => \A r \in Repos : c.modes[r] = "sealed"}

\* jitter is not validated (config.py line 44): a configuration may set it
\* above 1
JitterPcts == {DefaultJitterPct, 200}

\* config.load_config: the configuration on disk, or ConfigError when the
\* file is missing, unreadable or invalid at the moment of the call
LoadResults == {cfgFile, NoConfig}

Families == {"daemon", "bridge"}

\* rejected: the repositories whose push the remote rejected in the cycle
\* in progress; last: the same for the cycle before it
OffProc == [kind |-> None, pc |-> "off", cfg |-> NoConfig, idx |-> 0,
            exit |-> -1, why |-> None, attempted |-> << >>,
            outcomes |-> << >>, heldAtStart |-> FALSE,
            rejected |-> {}, last |-> {}, main_config |-> NoConfig]

----------------------------------------------------------------------------
(* RepoSync.sync as a sequence of git calls (repoops.py lines 39-101).      *)
(* Every run_git call either returns or raises GitError (gitwrap.py 59-65). *)

Call(p, name, ok) == Append(run[p].calls, <<name, ok>>)

Fail(p, name, error) ==
    [run EXCEPT ![p].pc = "failed", ![p].err = error,
                ![p].calls = Call(p, name, error # "GitError")]

Step(p, name, next) ==
    [run EXCEPT ![p].pc = next, ![p].calls = Call(p, name, TRUE)]

pre_sync_checks_unchecked(p) ==
    /\ run[p].pc = "pre_sync"
    /\ \/ run' = Fail(p, "status", "GitError")
       \/ run' = Step(p, "status", "fetch")
    /\ UNCHANGED <<cl, wc, bc, cfgFile, host, proc, lock, cycleCount, fs, cmd, scn, gc, pw>>

\* _pre_sync_checks: git_is_clean, PolicyViolationError on a dirty tree
pre_sync_checks(p) ==
    /\ run[p].pc = "pre_sync"
    /\ \/ run' = Fail(p, "status", "GitError")
       \/ /\ wc[run[p].repo].dirty
          /\ run' = Fail(p, "status", "PolicyViolationError")
       \/ /\ ~wc[run[p].repo].dirty
          /\ run' = Step(p, "status", "fetch")
    /\ UNCHANGED <<cl, wc, bc, cfgFile, host, proc, lock, cycleCount, fs, cmd, scn, gc, pw>>

fetch_remotes_swallowed(p) ==
    LET r == run[p].repo IN
    /\ run[p].pc = "fetch"
    /\ \/ /\ wc' = [wc EXCEPT ![r].track = wc[r].origin]
          /\ run' = Step(p, "fetch", "branch")
       \/ /\ \E t \in {wc[r].track, wc[r].origin} :
                wc' = [wc EXCEPT ![r].track = t]
          /\ run' = [run EXCEPT ![p].pc = "branch",
                                ![p].calls = Call(p, "fetch", FALSE)]
    /\ UNCHANGED <<cl, bc, cfgFile, host, proc, lock, cycleCount, fs, cmd, scn, gc, pw>>

\* _fetch_remotes: git fetch --all --prune moves origin/<branch> to the head
\* of the personal remote; a failing fetch may already have updated it
fetch_remotes(p) ==
    LET r == run[p].repo IN
    /\ run[p].pc = "fetch"
    /\ \/ /\ wc' = [wc EXCEPT ![r].track = wc[r].origin]
          /\ run' = Step(p, "fetch", "branch")
       \/ /\ \E t \in {wc[r].track, wc[r].origin} :
                wc' = [wc EXCEPT ![r].track = t]
          /\ run' = Fail(p, "fetch", "GitError")
    /\ UNCHANGED <<cl, bc, cfgFile, host, proc, lock, cycleCount, fs, cmd, scn, gc, pw>>

\* git_current_branch
current_branch(p) ==
    /\ run[p].pc = "branch"
    /\ \/ run' = [Step(p, "branch", "rev_local")
                     EXCEPT ![p].branch = wc[run[p].repo].branch]
       \/ run' = Fail(p, "branch", "GitError")
    /\ UNCHANGED <<cl, wc, bc, cfgFile, host, proc, lock, cycleCount, fs, cmd, scn, gc, pw>>

\* _determine_sync_state line 71: git_get_head_sha(HEAD)
rev_parse_local(p) ==
    /\ run[p].pc = "rev_local"
    /\ \/ run' = [Step(p, "rev_parse", "rev_remote")
                     EXCEPT ![p].local_sha = wc[run[p].repo].head]
       \/ run' = Fail(p, "rev_parse", "GitError")
    /\ UNCHANGED <<cl, wc, bc, cfgFile, host, proc, lock, cycleCount, fs, cmd, scn, gc, pw>>

\* _determine_sync_state line 72: git_get_head_sha(origin/<branch>)
rev_parse_remote(p) ==
    /\ run[p].pc = "rev_remote"
    /\ \/ run' = [Step(p, "rev_parse", "merge_base")
                     EXCEPT ![p].remote_sha = wc[run[p].repo].track]
       \/ run' = Fail(p, "rev_parse", "GitError")
    /\ UNCHANGED <<cl, wc, bc, cfgFile, host, proc, lock, cycleCount, fs, cmd, scn, gc, pw>>

FirstAction_crossed(state) ==
    CASE state = "BEHIND"     -> "push"
      [] state = "AHEAD"      -> "rebase"
      [] state = "DIVERGED"   -> "rebase"
      [] state = "UP_TO_DATE" -> "done"

FirstAction_acts_when_up_to_date(state) ==
    CASE state = "BEHIND"     -> "rebase"
      [] state = "AHEAD"      -> "push"
      [] state = "DIVERGED"   -> "rebase"
      [] state = "UP_TO_DATE" -> "push"

\* sync lines 51-56: the handler chosen for a classification
FirstAction(state) ==
    CASE state = "BEHIND"     -> "rebase"
      [] state = "AHEAD"      -> "push"
      [] state = "DIVERGED"   -> "rebase"
      [] state = "UP_TO_DATE" -> "done"

\* _determine_sync_state lines 73-82 and the dispatch of sync lines 51-56
classify(p) ==
    /\ run[p].pc = "merge_base"
    /\ \/ LET base  == git_get_merge_base(run[p].local_sha, run[p].remote_sha)
              state == determine_sync_state(run[p].local_sha,
                                            run[p].remote_sha, base)
          IN  run' = [Step(p, "merge_base", FirstAction(state))
                         EXCEPT ![p].base_sha = base, ![p].state = state]
       \/ run' = Fail(p, "merge_base", "GitError")
    /\ UNCHANGED <<cl, wc, bc, cfgFile, host, proc, lock, cycleCount, fs, cmd, scn, gc, pw>>

AfterRebase_no_push(state) == "done"

\* what follows a successful rebase: _handle_behind ends, _handle_diverged
\* goes on to push
AfterRebase(state) == IF state = "DIVERGED" THEN "push" ELSE "done"

rebase_failure_ignored(p) ==
    LET r == run[p].repo
        w == wc[r] IN
    /\ run[p].pc = "rebase"
    /\ \/ /\ ~w.rebasing
          /\ wc' = [wc EXCEPT ![r].head = RebasedHead(w.head, w.track)]
          /\ run' = Step(p, "rebase", AfterRebase(run[p].state))
       \/ /\ wc' = wc
          /\ run' = [run EXCEPT ![p].pc = AfterRebase(run[p].state),
                                ![p].calls = Call(p, "rebase", FALSE)]
    /\ UNCHANGED <<cl, bc, cfgFile, host, proc, lock, cycleCount, fs, cmd, scn, gc, pw>>

\* git_rebase onto origin/<branch> (_handle_behind line 88, _handle_diverged
\* line 99); a conflict leaves the rebase in progress and raises GitError
rebase(p) ==
    LET r == run[p].repo
        w == wc[r] IN
    /\ run[p].pc = "rebase"
    /\ \/ /\ ~w.rebasing
          /\ wc' = [wc EXCEPT ![r].head = RebasedHead(w.head, w.track)]
          /\ run' = Step(p, "rebase", AfterRebase(run[p].state))
       \/ /\ ~w.rebasing
          /\ ~IsAncestor(w.head, w.track) /\ ~IsAncestor(w.track, w.head)
          /\ wc' = [wc EXCEPT ![r].rebasing = TRUE, ![r].dirty = TRUE]
          /\ run' = Fail(p, "rebase", "GitError")
       \/ /\ wc' = wc
          /\ run' = Fail(p, "rebase", "GitError")
    /\ UNCHANGED <<cl, bc, cfgFile, host, proc, lock, cycleCount, fs, cmd, scn, gc, pw>>

PushForce_always(policy) == TRUE

\* the force_with_lease argument of git_push (gitwrap.py line 93): no caller
\* passes it (repoops.py lines 94 and 101, bridge.py lines 60 and 75), so it
\* takes its default whatever the policy says
PushForce(policy) == FALSE

push_to_origin(p) ==
    LET r == run[p].repo
        w == wc[r] IN
    /\ run[p].pc = "push"
    /\ \/ /\ IsAncestor(w.origin, w.head)
          /\ wc' = [wc EXCEPT ![r].origin = w.head, ![r].track = w.head]
          /\ run' = Step(p, "push", "done")
       \/ /\ wc' = wc
          /\ run' = Fail(p, "push", "GitError")
    /\ UNCHANGED <<cl, bc, cfgFile, host, proc, lock, cycleCount, fs, cmd, scn, gc, pw>>

\* git_push(path, "relay", branch) (_handle_ahead line 94, _handle_diverged
\* line 101): a plain push is accepted when it fast-forwards the relay
\* branch, a push with --force-with-lease also when it rewinds it
push(p) ==
    LET r == run[p].repo
        w == wc[r]
        force == PushForce(run[p].policy) IN
    /\ run[p].pc = "push"
    /\ \/ /\ w.relay # NoRemote
          /\ force \/ IsAncestor(w.relay, w.head)
          /\ wc' = [wc EXCEPT ![r].relay = w.head]
          /\ run' = [Step(p, "push", "done") EXCEPT
                        ![p].forced = run[p].forced \/ force]
       \/ /\ wc' = wc
          /\ run' = [Fail(p, "push", "GitError") EXCEPT
                        ![p].forced = run[p].forced \/ force]
    /\ UNCHANGED <<cl, bc, cfgFile, host, proc, lock, cycleCount, fs, cmd, scn, gc, pw>>

sync(p) ==
    \/ pre_sync_checks(p)
    \/ fetch_remotes(p)
    \/ current_branch(p)
    \/ rev_parse_local(p)
    \/ rev_parse_remote(p)
    \/ classify(p)
    \/ rebase(p)
    \/ push(p)

\* the run has returned (done) or raised (failed)
Finished(p)       == run[p].pc \in {"done", "failed"}
CallNames(p)      == {run[p].calls[i][1] : i \in 1 .. Len(run[p].calls)}
Succeeded(p, name) == \E i \in 1 .. Len(run[p].calls) : run[p].calls[i] = <<name, TRUE>>
IsAction(c)       == c[1] \in {"rebase", "push"}
Actions(p)        == SelectSeq(run[p].calls, IsAction)

----------------------------------------------------------------------------
(* The path policy: policy.build_pathspec and util/fs.safe_copy_tree over   *)
(* pathspec's gitwildmatch patterns.  A tree is the set of relative paths   *)
(* of its files.                                                            *)

MaxPatterns == 2     \* longest include or exclude list

Paths    == {"a.py", "b.txt", "docs/c.md", "build/artifact.bin", "build/gen.py"}
Patterns == {"*.py", "*.md", "build/**"}

\* a file of the version-control metadata directory, which os.walk visits
\* like any other
MetaPaths == {".git/config"}

\* gitwildmatch: a pattern with no slash matches the file name at any depth,
\* build/** matches everything under build
gitwildmatch(pattern, path) ==
    CASE pattern = "*.py"     -> path \in {"a.py", "build/gen.py"}
      [] pattern = "*.md"     -> path \in {"docs/c.md"}
      [] pattern = "build/**" -> path \in {"build/artifact.bin", "build/gen.py"}

RECURSIVE SeqsUpTo(_, _)
SeqsUpTo(S, n) ==
    IF n = 0 THEN {<< >>}
    ELSE LET prev == SeqsUpTo(S, n - 1)
         IN  prev \cup {Append(q, x) : q \in {t \in prev : Len(t) = n - 1}, x \in S}

PatternLists == SeqsUpTo(Patterns, MaxPatterns)

\* PathSpec.from_lines: a line starting with "!" compiles to a negated
\* pattern, any other line to a plain one
from_lines(patterns) ==
    [i \in 1 .. Len(patterns) |-> [negated |-> FALSE, pattern |-> patterns[i]]]

\* policy.build_pathspec lines 16-23: "!" + pattern for every exclude, then
\* the includes, compiled in that order
build_pathspec(include, exclude) ==
    [i \in 1 .. Len(exclude) |-> [negated |-> TRUE, pattern |-> exclude[i]]]
        \o from_lines(include)

\* PathSpec.match_file: the last line whose pattern matches the path
\* decides, a negated line against the path; no matching line, no match
RECURSIVE match_file(_, _)
match_file(spec, path) ==
    IF spec = << >> THEN FALSE
    ELSE LET line == spec[Len(spec)] IN
         IF gitwildmatch(line.pattern, path) THEN ~line.negated
         ELSE match_file(SubSeq(spec, 1, Len(spec) - 1), path)

\* PathSpec.match_files, PathSpec.match_tree
match_files(spec, files) == {f \in files : match_file(spec, f)}

CopiedTree_onto_dst(src, dst, include, exclude) ==
    LET included == IF include # << >> THEN match_files(from_lines(include), src)
                    ELSE src
        excluded == IF exclude # << >> THEN match_files(from_lines(exclude), included)
                    ELSE {}
    IN  dst \cup (included \ excluded)

CopiedTree_spares_metadata(src, dst, include, exclude) ==
    LET included == IF include # << >> THEN match_files(from_lines(include), src)
                    ELSE src
        excluded == IF exclude # << >> THEN match_files(from_lines(exclude), included)
                    ELSE {}
    IN  ((included \ excluded) \ MetaPaths) \cup (dst \cap MetaPaths)

\* safe_copy_tree lines 24-50: the files of dst once the call has returned;
\* dst is removed before the copy
CopiedTree(src, dst, include, exclude) ==
    LET included == IF include # << >> THEN match_files(from_lines(include), src)
                    ELSE src
        excluded == IF exclude # << >> THEN match_files(from_lines(exclude), included)
                    ELSE {}
    IN  included \ excluded

InitPaths ==
    /\ cmd = IdleCmd
    /\ scn = IdleScn
    /\ gc = IdleGc
    /\ pw = IdlePw
    /\ cl = IdleCl
    /\ wc = [r \in Repos |-> CleanCopy]
    /\ bc = [r \in Repos |-> NoClones]
    /\ run = [p \in Procs |-> IdleRun]
    /\ cfgFile = NoConfig
    /\ host = "scheduler"
    /\ proc = [p \in Procs |-> OffProc]
    /\ lock = [f \in Families |-> 0]
    /\ cycleCount = 0
    /\ \E src \in SUBSET (Paths \cup MetaPaths),
          dst \in {{}, {"b.txt", "old.txt"}, {"build/gen.py", ".git/config"}},
          include \in PatternLists, exclude \in PatternLists :
          fs = [IdleFs EXCEPT !.src = src, !.dst = dst, !.dst0 = dst,
                              !.include = include, !.exclude = exclude]

\* policy.get_matching_files over the matcher of build_pathspec
match_tree ==
    /\ ~fs.built
    /\ fs' = [fs EXCEPT !.built = TRUE,
                        !.matched = match_files(build_pathspec(fs.include, fs.exclude),
                                                fs.src)]
    /\ UNCHANGED <<cl, wc, bc, run, cfgFile, host, proc, lock, cycleCount, cmd, scn, gc, pw>>

\* safe_copy_tree(src, dst, include, exclude) returns
safe_copy_tree ==
    /\ ~fs.copied
    /\ fs' = [fs EXCEPT !.copied = TRUE,
                        !.dst = CopiedTree(fs.src, fs.dst, fs.include, fs.exclude)]
    /\ UNCHANGED <<cl, wc, bc, run, cfgFile, host, proc, lock, cycleCount, cmd, scn, gc, pw>>

NextPaths == match_tree \/ safe_copy_tree

SpecPaths == InitPaths /\ [][NextPaths]_vars

----------------------------------------------------------------------------
(* gitwrap.run_git: the Command Runner *)

\* what the child process may write and return
Outputs     == {"", "\n", "fatal: not a git repository\n"}
ReturnCodes == {0, 1, 128}

\* how the host may answer for the git binary
GitBinaries == {"found", "missing", "not executable"}

\* str.strip on the outputs above
strip(s) ==
    CASE s = "" -> ""
      [] s = "\n" -> ""
      [] s = "fatal: not a git repository\n" -> "fatal: not a git repository"

\* subprocess.run(["git"] + args, capture_output=True, text=True,
\* timeout=timeout, check=check): the exception it raises, or the
\* CompletedProcess
subprocess_run(c) ==
    IF c.git = "missing" THEN [exc |-> "FileNotFoundError", process |-> NoProcess]
    ELSE IF c.git = "not executable"
    THEN [exc |-> "PermissionError", process |-> NoProcess]
    ELSE IF c.timed_out THEN [exc |-> "TimeoutExpired", process |-> NoProcess]
    ELSE IF c.check /\ c.returncode # 0
    THEN [exc |-> "CalledProcessError", process |-> NoProcess]
    ELSE [exc |-> None,
          process |-> [returncode |-> c.returncode, stdout |-> c.stdout,
                       stderr |-> c.stderr]]

Raise(c, exc, message) ==
    [c EXCEPT !.called = TRUE, !.raised = exc, !.message = message]

run_git_leaks_timeout(c) ==
    IF ~c.cwd_is_dir
    THEN Raise(c, "GitError", <<"working directory not found", "">>)
    ELSE LET r == subprocess_run(c) IN
         CASE r.exc = None -> [c EXCEPT !.called = TRUE, !.result = r.process]
           [] r.exc = "FileNotFoundError" ->
                Raise(c, "GitError", <<"not found", "">>)
           [] r.exc = "CalledProcessError" ->
                Raise(c, "GitError",
                      <<"failed", IF strip(c.stderr) # "" THEN strip(c.stderr)
                                  ELSE strip(c.stdout)>>)
           [] OTHER -> Raise(c, r.exc, << >>)

\* run_git: the directory check, the call, and the three handlers; any
\* other exception of subprocess.run passes to the caller as it is
run_git(c) ==
    IF ~c.cwd_is_dir
    THEN Raise(c, "GitError", <<"working directory not found", "">>)
    ELSE LET r == subprocess_run(c) IN
         CASE r.exc = None -> [c EXCEPT !.called = TRUE, !.result = r.process]
           [] r.exc = "FileNotFoundError" ->
                Raise(c, "GitError", <<"not found", "">>)
           [] r.exc = "CalledProcessError" ->
                Raise(c, "GitError",
                      <<"failed", IF strip(c.stderr) # "" THEN strip(c.stderr)
                                  ELSE strip(c.stdout)>>)
           [] r.exc = "TimeoutExpired" ->
                Raise(c, "GitError", <<"timed out", "">>)
           [] OTHER -> Raise(c, r.exc, << >>)

InitRunGit ==
    /\ fs = IdleFs
    /\ cl = IdleCl
    /\ wc = [r \in Repos |-> CleanCopy]
    /\ bc = [r \in Repos |-> NoClones]
    /\ run = [p \in Procs |-> IdleRun]
    /\ cfgFile = NoConfig
    /\ host = "scheduler"
    /\ proc = [p \in Procs |-> OffProc]
    /\ lock = [f \in Families |-> 0]
    /\ cycleCount = 0
    /\ scn = IdleScn
    /\ gc = IdleGc
    /\ pw = IdlePw
    /\ \E d \in BOOLEAN, g \in GitBinaries, t \in BOOLEAN, rc \in ReturnCodes,
          out \in Outputs, err \in Outputs, check \in BOOLEAN :
          cmd = [IdleCmd EXCEPT !.cwd_is_dir = d, !.git = g, !.timed_out = t,
                                !.returncode = rc, !.stdout = out,
                                !.stderr = err, !.check = check]

\* one call of run_git returns or raises
call_run_git ==
    /\ ~cmd.called
    /\ cmd' = run_git(cmd)
    /\ UNCHANGED <<cl, wc, bc, run, cfgFile, host, proc, lock, cycleCount, fs, scn, gc, pw>>

NextRunGit == call_run_git

SpecRunGit == InitRunGit /\ [][NextRunGit]_vars

----------------------------------------------------------------------------
(* scan.py: the Secret Gate *)

MaxFindings == 2     \* longest gitleaks report

Scanners == {"gitleaks", "none"}

\* the entries of a gitleaks JSON report as json.loads returns them
ReportEntries == [Description : {"Generic API Key"},
                  File : {"config.yaml", "a.py", "docs/c.md"},
                  StartLine : {1, 10}]

Reports == SeqsUpTo(ReportEntries, MaxFindings)

\* what run_command and json.loads may make of the gitleaks call: a report,
\* output that is no JSON, no gitleaks binary, a non-zero exit
ToolOutcomes == {"report", "garbled", "missing", "failed"}

\* scan.Finding built from one report entry (scan.py lines 70-74)
Finding(f) == [description |-> f.Description, file |-> f.File, line |-> f.StartLine]

parse_report_first_only(report) ==
    IF report = << >> THEN << >> ELSE <<Finding(report[1])>>

\* GitleaksScanner._parse_report: one Finding per entry, in order
parse_report(report) == [i \in 1 .. Len(report) |-> Finding(report[i])]

\* GitleaksScanner.scan (lines 39-64) and NoOpScanner.scan (lines 82-84)
scan(s) ==
    IF s.scanner = "none" THEN [s EXCEPT !.called = TRUE]
    ELSE CASE s.tool = "missing" ->
                [s EXCEPT !.called = TRUE, !.raised = "SealbridgeError"]
           [] s.tool = "failed" ->
                [s EXCEPT !.called = TRUE, !.raised = "RuntimeError"]
           [] s.tool = "garbled" ->
                [s EXCEPT !.called = TRUE, !.raised = "SealbridgeError"]
           [] s.tool = "report" ->
                LET findings == parse_report(s.report) IN
                IF findings # << >>
                THEN [s EXCEPT !.called = TRUE, !.raised = "SecretFoundError",
                               !.findings = findings]
                ELSE [s EXCEPT !.called = TRUE]

InitScan ==
    /\ fs = IdleFs
    /\ cmd = IdleCmd
    /\ gc = IdleGc
    /\ pw = IdlePw
    /\ cl = IdleCl
    /\ wc = [r \in Repos |-> CleanCopy]
    /\ bc = [r \in Repos |-> NoClones]
    /\ run = [p \in Procs |-> IdleRun]
    /\ cfgFile = NoConfig
    /\ host = "scheduler"
    /\ proc = [p \in Procs |-> OffProc]
    /\ lock = [f \in Families |-> 0]
    /\ cycleCount = 0
    /\ \E scanner \in Scanners, tool \in ToolOutcomes, report \in Reports :
          /\ tool # "report" => report = << >>
          /\ scn = [IdleScn EXCEPT !.scanner = scanner, !.tool = tool,
                                   !.report = report]

\* one call of Scanner.scan returns or raises
call_scan ==
    /\ ~scn.called
    /\ scn' = scan(scn)
    /\ UNCHANGED <<cl, wc, bc, run, cfgFile, host, proc, lock, cycleCount, fs,
                   cmd, gc, pw>>

NextScan == call_scan

SpecScan == InitScan /\ [][NextScan]_vars

----------------------------------------------------------------------------
(* RepoBridge.sync_bridge as a sequence of git calls and tree copies        *)
(* (bridge.py lines 32-76).  run[p].dir is the mirroring direction.         *)

Src_always_relay(dir) == "relay"

\* the source and the destination clone of a mirroring direction
Src(dir) == IF dir = "p2r" THEN "personal" ELSE "relay"
Dst(dir) == IF dir = "p2r" THEN "relay" ELSE "personal"

\* a run record at the call of RepoBridge.sync_bridge; bc0 remembers the
\* clones the run started from
NewBridgeRun(r) == [IdleRun EXCEPT !.pc = "clone_personal", !.repo = r,
                                   !.bc0 = bc[r]]

\* the end of one mirroring direction: sync_bridge lines 37-38
EndMirror(p, name) ==
    IF run[p].dir = "p2r"
    THEN [Step(p, name, "b_fetch") EXCEPT ![p].dir = "r2p"]
    ELSE Step(p, name, "done")

\* _ensure_clones_exist lines 42-45: clone a side whose directory is missing
ensure_clone(p, side) ==
    LET r == run[p].repo
        next == IF side = "personal" THEN "clone_relay" ELSE "b_fetch" IN
    /\ run[p].pc = "clone_" \o side
    /\ IF bc[r][side].exists
       THEN /\ run' = [run EXCEPT ![p].pc = next, ![p].dir = "p2r"]
            /\ bc' = bc
       ELSE \/ /\ bc' = [bc EXCEPT ![r][side] = FreshClone(side)]
               /\ run' = [Step(p, "clone", next) EXCEPT ![p].dir = "p2r"]
            \/ /\ bc' = bc
               /\ run' = Fail(p, "clone", "GitError")
    /\ UNCHANGED <<cl, wc, cfgFile, host, proc, lock, cycleCount, fs, cmd, scn, gc, pw>>

\* lines 51 and 66: git_fetch_all on the source clone
bridge_fetch(p) ==
    /\ run[p].pc = "b_fetch"
    /\ \/ run' = Step(p, "fetch", "b_status")
       \/ run' = Fail(p, "fetch", "GitError")
    /\ UNCHANGED <<cl, wc, bc, cfgFile, host, proc, lock, cycleCount, fs, cmd, scn, gc, pw>>

\* lines 54 and 68: "ahead" in the output of git status -sb
bridge_status(p) ==
    LET src == bc[run[p].repo][Src(run[p].dir)] IN
    /\ run[p].pc = "b_status"
    /\ \/ /\ src.meta # None /\ src.ahead
          /\ run' = Step(p, "status_sb", "b_copy")
       \/ /\ src.meta # None /\ ~src.ahead
          /\ run' = EndMirror(p, "status_sb")
       \/ run' = Fail(p, "status_sb", "GitError")
    /\ UNCHANGED <<cl, wc, bc, cfgFile, host, proc, lock, cycleCount, fs, cmd, scn, gc, pw>>

\* the include and exclude lists the bridge hands to safe_copy_tree: the
\* literals [] and [] (bridge.py lines 55 and 70), whatever the policy says
BridgePaths(policy) == [include |-> << >>, exclude |-> << >>]

\* lines 55 and 70: safe_copy_tree(src, dst, [], []) removes the destination
\* directory and copies every file of the source, repository metadata
\* included (util/fs.py lines 17-50); an OSError leaves a partial copy
bridge_copy(p) ==
    LET r == run[p].repo
        src == bc[r][Src(run[p].dir)]
        dst == bc[r][Dst(run[p].dir)]
        paths == BridgePaths(run[p].policy)
        copied == CopiedTree(src.files, dst.files, paths.include, paths.exclude) IN
    /\ run[p].pc = "b_copy"
    /\ \/ /\ bc' = [bc EXCEPT ![r][Dst(run[p].dir)] = [src EXCEPT !.files = copied]]
          /\ run' = Step(p, "copy", "b_clean")
       \/ /\ \E part \in SUBSET copied :
                bc' = [bc EXCEPT ![r][Dst(run[p].dir)] =
                               [exists |-> TRUE, meta |-> None, ahead |-> FALSE,
                                dirty |-> FALSE, files |-> part,
                                content |-> src.content]]
          /\ run' = Fail(p, "copy", "OSError")
    /\ UNCHANGED <<cl, wc, cfgFile, host, proc, lock, cycleCount, fs, cmd, scn, gc, pw>>

\* lines 57 and 72: git_is_clean on the destination clone
bridge_is_clean(p) ==
    LET dst == bc[run[p].repo][Dst(run[p].dir)] IN
    /\ run[p].pc = "b_clean"
    /\ \/ /\ dst.meta # None /\ dst.dirty
          /\ run' = Step(p, "status", "b_add")
       \/ /\ dst.meta # None /\ ~dst.dirty
          /\ run' = EndMirror(p, "status")
       \/ run' = Fail(p, "status", "GitError")
    /\ UNCHANGED <<cl, wc, bc, cfgFile, host, proc, lock, cycleCount, fs, cmd, scn, gc, pw>>

\* lines 58-59 and 73-74: git add . and git commit in the destination clone
bridge_commit(p) ==
    LET r == run[p].repo IN
    /\ run[p].pc = "b_add"
    /\ \/ /\ bc' = [bc EXCEPT ![r][Dst(run[p].dir)].dirty = FALSE,
                              ![r][Dst(run[p].dir)].ahead = TRUE]
          /\ run' = [Step(p, "add", "b_push") EXCEPT
                        ![p].calls = Append(Call(p, "add", TRUE), <<"commit", TRUE>>)]
       \/ /\ bc' = bc
          /\ \E name \in {"add", "commit"} : run' = Fail(p, name, "GitError")
    /\ UNCHANGED <<cl, wc, cfgFile, host, proc, lock, cycleCount, fs, cmd, scn, gc, pw>>

\* lines 60 and 75: git_push(dst, "origin", "main")
bridge_push(p) ==
    LET r == run[p].repo IN
    /\ run[p].pc = "b_push"
    /\ \/ /\ bc' = [bc EXCEPT ![r][Dst(run[p].dir)].ahead = FALSE]
          /\ run' = [EndMirror(p, "push") EXCEPT
                        ![p].forced = run[p].forced \/ PushForce(run[p].policy)]
       \/ /\ bc' = bc
          /\ run' = [Fail(p, "push", "GitError") EXCEPT
                        ![p].forced = run[p].forced \/ PushForce(run[p].policy)]
    /\ UNCHANGED <<cl, wc, cfgFile, host, proc, lock, cycleCount, fs, cmd, scn, gc, pw>>

sync_bridge(p) ==
    \/ \E side \in {"personal", "relay"} : ensure_clone(p, side)
    \/ bridge_fetch(p)
    \/ bridge_status(p)
    \/ bridge_copy(p)
    \/ bridge_is_clean(p)
    \/ bridge_commit(p)
    \/ bridge_push(p)

----------------------------------------------------------------------------
(* The classification applied to arbitrary SHA triples *)

ClassifyShas == CommitsUpTo(MaxDepth + 1)

InitClassify ==
    /\ fs = IdleFs
    /\ cmd = IdleCmd
    /\ scn = IdleScn
    /\ gc = IdleGc
    /\ pw = IdlePw
    /\ cl \in [local : ClassifyShas, remote : ClassifyShas,
               base : ClassifyShas, state : {None}]
    /\ wc = [r \in Repos |-> CleanCopy]
    /\ bc = [r \in Repos |-> NoClones]
    /\ run = [p \in Procs |-> IdleRun]
    /\ cfgFile = NoConfig
    /\ host = "scheduler"
    /\ proc = [p \in Procs |-> OffProc]
    /\ lock = [f \in Families |-> 0]
    /\ cycleCount = 0

ClassifyTriple ==
    /\ cl.state = None
    /\ cl' = [cl EXCEPT !.state = determine_sync_state(cl.local, cl.remote, cl.base)]
    /\ UNCHANGED <<wc, bc, run, cfgFile, host, proc, lock, cycleCount, fs, cmd, scn, gc, pw>>

NextClassify == ClassifyTriple

SpecClassify == InitClassify /\ [][NextClassify]_vars

----------------------------------------------------------------------------
(* One RepoSync.sync run on repository 1, from every bounded repository state *)

Commits == CommitsUpTo(MaxDepth)

WorkingCopies ==
    {w \in [branch : Branches, dirty : BOOLEAN, rebasing : BOOLEAN, head : Commits,
            track : Commits, origin : Commits,
            relay : Commits \cup {NoRemote}] : w.rebasing => w.dirty}

InitSync ==
    /\ fs = IdleFs
    /\ cmd = IdleCmd
    /\ scn = IdleScn
    /\ gc = IdleGc
    /\ pw = IdlePw
    /\ cl = IdleCl
    /\ bc = [r \in Repos |-> NoClones]
    /\ cfgFile = NoConfig
    /\ host = "scheduler"
    /\ proc = [p \in Procs |-> OffProc]
    /\ lock = [f \in Families |-> 0]
    /\ cycleCount = 0
    /\ \E w \in WorkingCopies, policy \in Policies :
          /\ wc = [r \in Repos |-> IF r = 1 THEN w ELSE CleanCopy]
          /\ run = [p \in Procs |->
                      IF p = 1 THEN [IdleRun EXCEPT !.pc = "pre_sync", !.repo = 1,
                                                    !.wc0 = w, !.policy = policy]
                      ELSE IdleRun]

NextSync == sync(1)

SpecSync == InitSync /\ [][NextSync]_vars

----------------------------------------------------------------------------
(* One RepoSync.sync run (process 1) and one RepoBridge.sync_bridge run     *)
(* (process 2) on repository 1 under every policy: all the pushes there are *)

InitPush ==
    /\ fs = IdleFs
    /\ cmd = IdleCmd
    /\ scn = IdleScn
    /\ gc = IdleGc
    /\ pw = IdlePw
    /\ cl = IdleCl
    /\ cfgFile = NoConfig
    /\ host = "scheduler"
    /\ proc = [p \in Procs |-> OffProc]
    /\ lock = [f \in Families |-> 0]
    /\ cycleCount = 0
    /\ \E w \in WorkingCopies, policy \in Policies, d \in BOOLEAN :
          /\ w.branch = "main" /\ ~w.dirty /\ w.track = w.origin
          /\ w.relay # NoRemote
          /\ policy.scan /\ policy.protected_branches = {}
          /\ wc = [r \in Repos |-> IF r = 1 THEN w ELSE CleanCopy]
          /\ bc = [r \in Repos |->
                     IF r = 1
                     THEN [personal |-> [FreshClone("personal") EXCEPT
                                             !.ahead = TRUE, !.dirty = d],
                           relay |-> FreshClone("relay")]
                     ELSE NoClones]
          /\ run = [p \in Procs |->
                      IF p = 1 THEN [IdleRun EXCEPT !.pc = "pre_sync", !.repo = 1,
                                                    !.wc0 = w, !.policy = policy]
                      ELSE IF p = 2
                      THEN [IdleRun EXCEPT !.pc = "clone_personal", !.repo = 1,
                                           !.policy = policy]
                      ELSE IdleRun]

NextPush == sync(1) \/ sync_bridge(2)

SpecPush == InitPush /\ [][NextPush]_vars

----------------------------------------------------------------------------
(* One RepoBridge.sync_bridge run on repository 1, from clones with every   *)
(* bounded tree, under a path policy with or without an exclude pattern     *)

MirrorPaths == {"a.py", "build/gen.py"}

InitMirror ==
    /\ fs = IdleFs
    /\ cmd = IdleCmd
    /\ scn = IdleScn
    /\ gc = IdleGc
    /\ pw = IdlePw
    /\ cl = IdleCl
    /\ wc = [r \in Repos |-> CleanCopy]
    /\ cfgFile = NoConfig
    /\ host = "bridge"
    /\ proc = [p \in Procs |-> OffProc]
    /\ lock = [f \in Families |-> 0]
    /\ cycleCount = 0
    /\ \E fp \in SUBSET MirrorPaths, fr \in SUBSET MirrorPaths,
          a \in BOOLEAN, d \in BOOLEAN, e \in {<< >>, <<"build/**">>} :
          LET clones == [personal |-> [FreshClone("personal") EXCEPT
                                          !.ahead = a, !.dirty = d, !.files = fp],
                         relay |-> [FreshClone("relay") EXCEPT !.files = fr]]
          IN  /\ bc = [r \in Repos |-> IF r = 1 THEN clones ELSE NoClones]
              /\ run = [p \in Procs |->
                          IF p = 1
                          THEN [IdleRun EXCEPT
                                   !.pc = "clone_personal", !.repo = 1,
                                   !.bc0 = clones,
                                   !.policy = [DefaultPolicy EXCEPT
                                                  !.paths.exclude = e]]
                          ELSE IdleRun]

NextMirror == sync_bridge(1)

SpecMirror == InitMirror /\ [][NextMirror]_vars

----------------------------------------------------------------------------
(* One RepoBridge.sync_bridge run on repository 1 whose two clones are both *)
(* ahead and hold different edits of a.py: content names whose edit a clone *)
(* holds                                                                    *)

InitConflict ==
    /\ fs = IdleFs
    /\ cmd = IdleCmd
    /\ scn = IdleScn
    /\ gc = IdleGc
    /\ pw = IdlePw
    /\ cl = IdleCl
    /\ wc = [r \in Repos |-> CleanCopy]
    /\ cfgFile = NoConfig
    /\ host = "bridge"
    /\ proc = [p \in Procs |-> OffProc]
    /\ lock = [f \in Families |-> 0]
    /\ cycleCount = 0
    /\ \E fp \in SUBSET MirrorPaths, fr \in SUBSET MirrorPaths,
          dp \in BOOLEAN, dr \in BOOLEAN :
          LET clones == [personal |-> [FreshClone("personal") EXCEPT
                                          !.ahead = TRUE, !.dirty = dp,
                                          !.files = fp \cup {"a.py"},
                                          !.content = "personal"],
                         relay |-> [FreshClone("relay") EXCEPT
                                          !.ahead = TRUE, !.dirty = dr,
                                          !.files = fr \cup {"a.py"},
                                          !.content = "relay"]]
          IN  /\ bc = [r \in Repos |-> IF r = 1 THEN clones ELSE NoClones]
              /\ run = [p \in Procs |->
                          IF p = 1
                          THEN [IdleRun EXCEPT
                                   !.pc = "clone_personal", !.repo = 1,
                                   !.bc0 = clones]
                          ELSE IdleRun]

NextConflict == sync_bridge(1)

SpecConflict == InitConflict /\ [][NextConflict]_vars

----------------------------------------------------------------------------
(* Processes: the scheduler daemon (daemon.py main, run_sync_cycle), the    *)
(* bridge (bridge.py main) and the CLI sync command (cli.py sync).          *)

MaxCycles == 1     \* daemon cycles, bridge cycles and CLI sync commands
                   \* started on the host

Set(p, rec) == [proc EXCEPT ![p] = rec]

\* The scheduler with the CLI works on the configured working copies under
\* sealreposd.lock; the bridge works on its own clones under
\* sealbridge-bridge.lock.  The two share no state, so a behaviour follows
\* one of the two deployments.
Deployment(k) == IF k = "bridge" THEN "bridge" ELSE "scheduler"

\* processes are interchangeable: they are numbered in the order they start
IsNextToStart(p) ==
    /\ proc[p].pc = "off"
    /\ \A q \in Procs : q < p => proc[q].pc # "off"

\* a process that has ended: its exit status and what ended it
Exited(kind, code, why) ==
    [OffProc EXCEPT !.kind = kind, !.pc = "exited", !.exit = code, !.why = why]

Released_leaked(p) == lock

\* leaving main through the `with lock.acquire(...)` block and the finally
\* clause: the lock is released when this process holds it
Released(p) ==
    [f \in Families |-> IF lock[f] = p THEN 0 ELSE lock[f]]

\* a daemon or bridge process is launched and reaches lock.acquire(timeout=1)
Start(p, k) ==
    /\ IsNextToStart(p)
    /\ host = Deployment(k)
    /\ proc' = Set(p, [proc[p] EXCEPT !.kind = k, !.pc = "acquire",
                                      !.heldAtStart = (lock[k] # 0)])
    /\ UNCHANGED <<cl, wc, bc, run, cfgFile, host, lock, cycleCount, fs, cmd, scn, gc, pw>>

Acquire_unguarded(p) ==
    /\ proc[p].pc = "acquire"
    /\ lock' = [lock EXCEPT ![proc[p].kind] = p]
    /\ proc' = Set(p, [proc[p] EXCEPT !.pc = "load"])
    /\ UNCHANGED <<cl, wc, bc, run, cfgFile, host, cycleCount, fs, cmd, scn, gc, pw>>

\* FileLock.acquire: an attempt that finds the lock file free takes it
Acquire(p) ==
    /\ proc[p].pc = "acquire"
    /\ lock[proc[p].kind] = 0
    /\ lock' = [lock EXCEPT ![proc[p].kind] = p]
    /\ proc' = Set(p, [proc[p] EXCEPT !.pc = "load"])
    /\ UNCHANGED <<cl, wc, bc, run, cfgFile, host, cycleCount, fs, cmd, scn, gc, pw>>

AcquireTimeout_returns(p) ==
    /\ proc[p].pc = "acquire"
    /\ lock[proc[p].kind] # 0
    /\ proc' = Set(p, Exited(proc[p].kind, 0, "Timeout"))
    /\ UNCHANGED <<cl, wc, bc, run, cfgFile, host, lock, cycleCount, fs, cmd, scn, gc, pw>>

\* FileLock.acquire raises Timeout after a second of failed attempts;
\* `except Timeout` logs and calls exit(1)
AcquireTimeout(p) ==
    /\ proc[p].pc = "acquire"
    /\ lock[proc[p].kind] # 0
    /\ proc' = Set(p, Exited(proc[p].kind, 1, "Timeout"))
    /\ UNCHANGED <<cl, wc, bc, run, cfgFile, host, lock, cycleCount, fs, cmd, scn, gc, pw>>

\* daemon.py line 57: load_config at the head of the loop; a ConfigError
\* is caught by no handler of main and ends the process
main_load(p) ==
    /\ proc[p].pc = "load"
    /\ proc[p].kind = "daemon"
    /\ cycleCount < MaxCycles
    /\ cycleCount' = cycleCount + 1
    /\ \E config \in LoadResults :
          IF config = NoConfig
          THEN /\ proc' = Set(p, Exited(proc[p].kind, 1, "ConfigError"))
               /\ lock' = Released(p)
          ELSE /\ proc' = Set(p, [proc[p] EXCEPT !.pc = "cycle_load",
                                                 !.main_config = config])
               /\ lock' = lock
    /\ UNCHANGED <<cl, wc, bc, run, cfgFile, host, fs, cmd, scn, gc, pw>>

\* bridge.py lines 90-94: load_config at the head of the loop; the bridge
\* sleeps instead of mirroring unless the profile is home
bridge_load(p) ==
    /\ proc[p].pc = "load"
    /\ proc[p].kind = "bridge"
    /\ cycleCount < MaxCycles
    /\ cycleCount' = cycleCount + 1
    /\ \E config \in LoadResults :
          IF config = NoConfig
          THEN /\ proc' = Set(p, Exited(proc[p].kind, 1, "ConfigError"))
               /\ lock' = Released(p)
          ELSE /\ proc' = Set(p, [proc[p] EXCEPT
                                    !.pc = IF config.profile # "home" THEN "sleep"
                                           ELSE "next_repo",
                                    !.cfg = config, !.main_config = config,
                                    !.idx = 1,
                                    !.attempted = << >>, !.outcomes = << >>])
               /\ lock' = lock
    /\ UNCHANGED <<cl, wc, bc, run, cfgFile, host, fs, cmd, scn, gc, pw>>

cycle_load_fatal(p) ==
    /\ proc[p].pc = "cycle_load"
    /\ \E config \in LoadResults :
          IF config = NoConfig
          THEN /\ proc' = Set(p, Exited(proc[p].kind, 1, "ConfigError"))
               /\ lock' = Released(p)
          ELSE /\ proc' = Set(p, [proc[p] EXCEPT !.pc = "next_repo", !.cfg = config,
                                                 !.idx = 1,
                                                 !.attempted = << >>, !.outcomes = << >>,
                                                 !.rejected = {},
                                                 !.last = proc[p].rejected])
               /\ lock' = lock
    /\ UNCHANGED <<cl, wc, bc, run, cfgFile, host, cycleCount, fs, cmd, scn, gc, pw>>

\* run_sync_cycle lines 21-25: a configuration that fails to load ends the
\* cycle with no repository visited
cycle_load(p) ==
    /\ proc[p].pc = "cycle_load"
    /\ \E config \in LoadResults :
          IF config = NoConfig
          THEN proc' = Set(p, [proc[p] EXCEPT !.pc = "sleep", !.cfg = NoConfig,
                                              !.attempted = << >>, !.outcomes = << >>,
                                              !.rejected = {},
                                              !.last = proc[p].rejected])
          ELSE proc' = Set(p, [proc[p] EXCEPT !.pc = "next_repo", !.cfg = config,
                                              !.idx = 1,
                                              !.attempted = << >>, !.outcomes = << >>,
                                              !.rejected = {},
                                              !.last = proc[p].rejected])
    /\ UNCHANGED <<cl, wc, bc, run, cfgFile, host, lock, cycleCount, fs, cmd, scn, gc, pw>>

Skips_sealed_only(kind, mode) == mode # "sealed" /\ mode # "nosync"

Skips_nosync_only(kind, mode) == mode = "nosync"

\* the filter at the head of the loop body: daemon.py lines 28-29,
\* bridge.py lines 97-98
Skips(kind, mode) ==
    IF kind = "daemon" THEN mode = "nosync" ELSE mode # "sealed"

\* run_sync_cycle lines 27-35, bridge.py lines 96-103: the for loop over
\* config.repos
next_repo(p) ==
    LET pr == proc[p] IN
    /\ pr.pc = "next_repo"
    /\ IF pr.idx > Len(pr.cfg.modes)
       THEN /\ proc' = Set(p, [pr EXCEPT !.pc = "sleep"])
            /\ run' = run
       ELSE IF Skips(pr.kind, pr.cfg.modes[pr.idx])
       THEN /\ proc' = Set(p, [pr EXCEPT !.idx = pr.idx + 1])
            /\ run' = run
       ELSE /\ proc' = Set(p, [pr EXCEPT !.pc = "syncing",
                                         !.attempted = Append(pr.attempted, pr.idx)])
            /\ run' = [run EXCEPT ![p] = IF pr.kind = "daemon" THEN NewRun(pr.idx)
                                          ELSE NewBridgeRun(pr.idx)]
    /\ UNCHANGED <<cl, wc, bc, cfgFile, host, lock, cycleCount, fs, cmd, scn, gc, pw>>

AfterSync_raises(err) == IF err = None THEN "next_repo" ELSE "sleep"

AfterSync_crashes(err) == IF err = None THEN "next_repo" ELSE "exited"

\* the run ended because the remote rejected the push of an AHEAD repository
PushRejected(p) ==
    /\ run[p].pc = "failed" /\ run[p].state = "AHEAD"
    /\ run[p].calls[Len(run[p].calls)] = <<"push", FALSE>>

\* where the loop goes once a repository's sync has ended
AfterSync(err) == "next_repo"

sync_end_early(p) ==
    LET pr == proc[p] IN
    /\ pr.pc = "syncing"
    /\ pr.kind \in Families
    /\ proc' = Set(p, [pr EXCEPT !.pc = AfterSync(run[p].err), !.idx = pr.idx + 1,
                                 !.outcomes = Append(pr.outcomes, run[p].err)])
    /\ run' = [run EXCEPT ![p] = IdleRun]
    /\ UNCHANGED <<cl, wc, bc, cfgFile, host, lock, cycleCount, fs, cmd, scn, gc, pw>>

\* run_sync_cycle lines 36-40, bridge.py lines 104-107: the sync returned or
\* raised; `except Exception` logs the error and the loop goes on
sync_end(p) ==
    LET pr == proc[p] IN
    /\ pr.pc = "syncing"
    /\ pr.kind \in Families
    /\ Finished(p)
    /\ proc' = Set(p, [pr EXCEPT !.pc = AfterSync(run[p].err), !.idx = pr.idx + 1,
                                 !.outcomes = Append(pr.outcomes, run[p].err),
                                 !.rejected = IF PushRejected(p)
                                              THEN pr.rejected \cup {run[p].repo}
                                              ELSE pr.rejected])
    /\ run' = [run EXCEPT ![p] = IdleRun]
    /\ UNCHANGED <<cl, wc, bc, cfgFile, host, lock, cycleCount, fs, cmd, scn, gc, pw>>

\* daemon.py lines 59-61, bridge.py lines 93 and 109-111: the sleep times
\* random.uniform may yield, the ends of interval +- interval * jitter; the
\* bridge sleeps 300 seconds when the profile is not home
SleepTimes(kind, config) ==
    IF kind = "bridge" /\ config.profile # "home" THEN {300}
    ELSE LET interval == config.interval_sec
             jitter   == (interval * config.jitter_pct) \div 100
         IN  {interval - jitter, interval + jitter}

\* daemon.py lines 59-63, bridge.py lines 93 and 109-113: time.sleep returns
\* and the loop starts its next cycle; time.sleep raises ValueError on a
\* negative time, which no handler of main catches
sleep(p) ==
    /\ proc[p].pc = "sleep"
    /\ \E t \in SleepTimes(proc[p].kind, proc[p].main_config) :
          IF t < 0
          THEN /\ proc' = Set(p, Exited(proc[p].kind, 1, "ValueError"))
               /\ lock' = Released(p)
          ELSE /\ proc' = Set(p, [proc[p] EXCEPT !.pc = "load"])
               /\ lock' = lock
    /\ UNCHANGED <<cl, wc, bc, run, cfgFile, host, cycleCount, fs, cmd, scn, gc, pw>>

LoopPcs == {"load", "cycle_load", "next_repo", "syncing", "sleep"}

\* KeyboardInterrupt anywhere in main: it is no Exception, so the handler of
\* run_sync_cycle lets it through; the with block releases the lock and
\* `except KeyboardInterrupt` ends main normally
Interrupt(p) ==
    /\ proc[p].kind \in Families
    /\ proc[p].pc \in LoopPcs \cup {"acquire"}
    /\ proc' = Set(p, Exited(proc[p].kind, 0, "KeyboardInterrupt"))
    /\ lock' = Released(p)
    /\ run' = IF run[p].pc \in {"idle", "done", "failed"}
              THEN [run EXCEPT ![p] = IdleRun]
              ELSE [run EXCEPT ![p] = [IdleRun EXCEPT !.pc = "interrupted",
                                                      !.repo = run[p].repo]]
    /\ UNCHANGED <<cl, wc, bc, cfgFile, host, cycleCount, fs, cmd, scn, gc, pw>>

\* cli.sync lines 53-67: load the configuration, look the name up (0 is a
\* name no repository has) and start RepoSync.sync unless the mode is nosync
cli_sync(p, name) ==
    /\ IsNextToStart(p)
    /\ host = Deployment("cli")
    /\ cycleCount < MaxCycles
    /\ cycleCount' = cycleCount + 1
    /\ \E config \in LoadResults :
          IF config = NoConfig \/ name = 0
          THEN /\ proc' = Set(p, Exited("cli", 1, IF config = NoConfig
                                                    THEN "ConfigError" ELSE "not found"))
               /\ run' = run
          ELSE IF config.modes[name] = "nosync"
          THEN /\ proc' = Set(p, Exited("cli", 0, "nosync"))
               /\ run' = run
          ELSE /\ proc' = Set(p, [proc[p] EXCEPT !.kind = "cli", !.pc = "syncing",
                                                 !.idx = name, !.cfg = config,
                                                 !.attempted = <<name>>])
               /\ run' = [run EXCEPT ![p] = NewRun(name)]
    /\ UNCHANGED <<cl, wc, bc, cfgFile, host, lock, fs, cmd, scn, gc, pw>>

\* cli.sync lines 68-71: success is reported, a SealbridgeError becomes
\* typer.Exit(1)
cli_end(p) ==
    /\ proc[p].kind = "cli"
    /\ proc[p].pc = "syncing"
    /\ Finished(p)
    /\ proc' = Set(p, Exited("cli", IF run[p].err = None THEN 0 ELSE 1,
                              run[p].err))
    /\ run' = [run EXCEPT ![p] = IdleRun]
    /\ UNCHANGED <<cl, wc, bc, cfgFile, host, lock, cycleCount, fs, cmd, scn, gc, pw>>

\* working copies a fresh clone turns into: local commits (label 1) on top
\* of the cloned head, uncommitted changes, and commits pushed to the
\* personal remote by others (label 2) that are not fetched yet
MainCopies ==
    {w \in WorkingCopies : /\ w.branch = "main"
                           /\ ~w.rebasing /\ w.track = << >> /\ w.relay = << >>
                           /\ \A i \in 1 .. Len(w.head) : w.head[i] = 1
                           /\ \A i \in 1 .. Len(w.origin) : w.origin[i] = 2}

\* clones the bridge may find when it starts: none yet, or a clone with
\* unpushed commits, with or without uncommitted changes
BridgeClones(side) ==
    {NoClone} \cup {[FreshClone(side) EXCEPT !.ahead = TRUE, !.dirty = d] :
                       d \in BOOLEAN}

Init ==
    /\ fs = IdleFs
    /\ cmd = IdleCmd
    /\ scn = IdleScn
    /\ gc = IdleGc
    /\ pw = IdlePw
    /\ cl = IdleCl
    /\ \/ /\ host = "scheduler"
          /\ \E w \in MainCopies : wc = [r \in Repos |-> w]
          /\ bc = [r \in Repos |-> NoClones]
       \/ /\ host = "bridge"
          /\ wc = [r \in Repos |-> CleanCopy]
          /\ \E cp \in BridgeClones("personal"), cr \in BridgeClones("relay") :
                bc = [r \in Repos |-> [personal |-> cp, relay |-> cr]]
    /\ run = [p \in Procs |-> IdleRun]
    /\ cfgFile \in Configs
    /\ proc = [p \in Procs |-> OffProc]
    /\ lock = [f \in Families |-> 0]
    /\ cycleCount = 0

Next ==
    \/ \E p \in Procs :
          \/ \E k \in Families : Start(p, k)
          \/ Acquire(p)
          \/ AcquireTimeout(p)
          \/ main_load(p)
          \/ bridge_load(p)
          \/ cycle_load(p)
          \/ next_repo(p)
          \/ sync_end(p)
          \/ sleep(p)
          \/ Interrupt(p)
          \/ \E name \in 0 .. NumRepos : cli_sync(p, name)
          \/ cli_end(p)
          \/ sync(p)
          \/ sync_bridge(p)

Spec == Init /\ [][Next]_vars

----------------------------------------------------------------------------
(* One scheduler daemon alone on the host, with a budget of RetryCycles     *)
(* cycles: what a cycle does with the failures of the cycle before it       *)

RetryCycles == 2

InitRetry ==
    /\ fs = IdleFs
    /\ cmd = IdleCmd
    /\ scn = IdleScn
    /\ gc = IdleGc
    /\ pw = IdlePw
    /\ cl = IdleCl
    /\ host = "scheduler"
    /\ \E w \in MainCopies : wc = [r \in Repos |-> w]
    /\ bc = [r \in Repos |-> NoClones]
    /\ run = [p \in Procs |-> IdleRun]
    /\ cfgFile \in {[c EXCEPT !.jitter_pct = j] :
                       c \in {d \in Configs : d.profile = "home"}, j \in JitterPcts}
    /\ proc = [p \in Procs |-> OffProc]
    /\ lock = [f \in Families |-> 0]
    /\ cycleCount = MaxCycles - RetryCycles

NextRetry ==
    \/ Start(1, "daemon")
    \/ Acquire(1)
    \/ main_load(1)
    \/ cycle_load(1)
    \/ next_repo(1)
    \/ sync_end(1)
    \/ sleep(1)
    \/ Interrupt(1)
    \/ sync(1)

SpecRetry == InitRetry /\ [][NextRetry]_vars

----------------------------------------------------------------------------
(* The scheduler daemon and the CLI sync command side by side on the host, *)
(* with a budget of RetryCycles daemon cycles and CLI commands              *)

InitCli ==
    /\ InitRetry
    /\ cfgFile.jitter_pct = DefaultJitterPct
    /\ \A r \in Repos : ~wc[r].dirty

NextCli ==
    \E p \in Procs :
        \/ Start(p, "daemon")
        \/ Acquire(p)
        \/ AcquireTimeout(p)
        \/ main_load(p)
        \/ cycle_load(p)
        \/ next_repo(p)
        \/ sync_end(p)
        \/ sleep(p)
        \/ Interrupt(p)
        \/ \E name \in 0 .. NumRepos : cli_sync(p, name)
        \/ cli_end(p)
        \/ sync(p)

SpecCli == InitCli /\ [][NextCli]_vars

----------------------------------------------------------------------------
(* Properties of the classification and of one sync run *)

\* C1: every classified triple is UP_TO_DATE exactly when local = remote,
\* otherwise BEHIND exactly when local = base, otherwise AHEAD exactly when
\* remote = base, otherwise DIVERGED; one of the four states is returned.
C1_Classification ==
    cl.state # None =>
        /\ cl.state \in SyncStates
        /\ (cl.state = "UP_TO_DATE") <=> (cl.local = cl.remote)
        /\ (cl.state = "BEHIND") <=> (cl.local # cl.remote /\ cl.local = cl.base)
        /\ (cl.state = "AHEAD") <=>
              (cl.local # cl.remote /\ cl.local # cl.base /\ cl.remote = cl.base)
        /\ (cl.state = "DIVERGED") <=>
              (cl.local # cl.remote /\ cl.local # cl.base /\ cl.remote # cl.base)

C1_Witness ==
    /\ cl.state = "UP_TO_DATE"
    /\ cl.local = cl.remote /\ cl.remote = cl.base

\* C2: a run classified BEHIND never calls git_push and a run classified
\* AHEAD never calls git_rebase.
C2_BehindNoPushAheadNoRebase ==
    \A p \in Procs :
        /\ run[p].state = "BEHIND" => "push" \notin CallNames(p)
        /\ run[p].state = "AHEAD" => "rebase" \notin CallNames(p)

C2_Witness ==
    \E p \in Procs :
        /\ run[p].pc = "done" /\ run[p].state = "BEHIND"
        /\ "rebase" \in CallNames(p)

\* C3: a finished DIVERGED run whose rebase succeeded made exactly one rebase
\* call and exactly one push call, the rebase first.
C3_DivergedRebaseThenPush ==
    \A p \in Procs :
        (run[p].state = "DIVERGED" /\ Succeeded(p, "rebase") /\ Finished(p)) =>
            /\ Len(Actions(p)) = 2
            /\ Actions(p)[1][1] = "rebase"
            /\ Actions(p)[2][1] = "push"

C3_Witness ==
    \E p \in Procs :
        /\ run[p].pc = "done" /\ run[p].state = "DIVERGED"
        /\ run[p].wc0.head # wc[run[p].repo].head

\* C4 as stated: a run started on a dirty tree ends with PolicyViolationError
\* and made no fetch, classification, rebase or push call.
C4_DirtyEndsInPolicyViolation ==
    \A p \in Procs :
        (run[p].wc0.dirty /\ Finished(p)) =>
            /\ run[p].err = "PolicyViolationError"
            /\ CallNames(p) \subseteq {"status"}

\* C4 amended: a run started on a dirty tree makes no call but the status
\* check, leaves the working copy as it found it, and ends with
\* PolicyViolationError when the status check returned and with GitError
\* when the status check itself failed.
C4_DirtyAbortsBeforeFetch ==
    \A p \in Procs :
        (run[p].pc # "idle" /\ run[p].wc0.dirty) =>
            /\ run[p].pc \in {"pre_sync", "failed"}
            /\ CallNames(p) \subseteq {"status"}
            /\ run[p].state = None
            /\ wc[run[p].repo] = run[p].wc0
            /\ Finished(p) =>
                  /\ Succeeded(p, "status") => run[p].err = "PolicyViolationError"
                  /\ ~Succeeded(p, "status") => run[p].err = "GitError"

C4_Witness ==
    \E p \in Procs :
        /\ run[p].wc0.dirty /\ ~run[p].wc0.rebasing
        /\ run[p].pc = "failed" /\ run[p].err = "PolicyViolationError"

\* C5: every SHA read, classification, rebase and push of a run comes after a
\* fetch that succeeded in the same run, and the remote SHA classified is the
\* one that fetch brought in.
C5_ClassifyAfterFetch ==
    \A p \in Procs :
        /\ \A i \in 1 .. Len(run[p].calls) :
              run[p].calls[i][1] \in {"rev_parse", "merge_base", "rebase", "push"} =>
                  \E j \in 1 .. (i - 1) : run[p].calls[j] = <<"fetch", TRUE>>
        /\ run[p].state # None => Succeeded(p, "fetch")
        /\ run[p].remote_sha # NoSha =>
              run[p].remote_sha = wc[run[p].repo].origin

C5_Witness ==
    \E p \in Procs :
        /\ run[p].state \in SyncStates
        /\ run[p].wc0.track # run[p].wc0.origin
        /\ run[p].remote_sha = run[p].wc0.origin

\* C11 as stated: with secret scanning enabled, every push of a sync run
\* comes after a scan of the same run that returned normally.  The engine
\* never scans (the call at repoops.py line 93 is commented out).
C11_PushPrecededByScan ==
    \A p \in Procs :
        run[p].policy.scan =>
            \A i \in 1 .. Len(run[p].calls) :
                run[p].calls[i][1] = "push" =>
                    \E j \in 1 .. (i - 1) : run[p].calls[j] = <<"scan", TRUE>>

\* C12 as stated: no sync run pushes a branch of the protected-branch list;
\* a run that would push one ends in PolicyViolationError without a push.
C12_ProtectedBranchNeverPushed ==
    \A p \in Procs :
        (run[p].branch # None
            /\ is_protected_branch(run[p].branch, run[p].policy.protected_branches)) =>
            /\ "push" \notin CallNames(p)
            /\ (Finished(p) /\ run[p].state \in {"AHEAD", "DIVERGED"}
                    /\ ~(\E i \in 1 .. Len(run[p].calls) : ~run[p].calls[i][2])) =>
                  run[p].err = "PolicyViolationError"

\* C13: no push of the sync engine or of the bridge carries
\* --force-with-lease unless the policy sets push.allow_force_with_lease;
\* under the default policy every push is a plain push, and a push that
\* succeeded fast-forwarded the relay branch.
C13_NoForcedPushWithoutPermission ==
    /\ [](\A p \in Procs :
            run[p].forced => run[p].policy.allow_force_with_lease)
    /\ [][\A p \in Procs :
            (run[p].pc = "push" /\ run'[p].pc = "done"
                /\ ~run[p].policy.allow_force_with_lease) =>
                IsAncestor(wc[run[p].repo].relay, wc'[run[p].repo].relay)]_vars

C13_Witness ==
    /\ run[1].pc = "done" /\ Succeeded(1, "push")
    /\ ~run[1].policy.allow_force_with_lease
    /\ run[2].pc = "done" /\ Succeeded(2, "push")

\* C14 as stated: a DIVERGED run whose rebase failed leaves the working copy
\* with the HEAD it had, no rebase in progress and a clean tree, and ends in
\* a policy error.  The engine never aborts the rebase and lets the
\* GitError of git_rebase through (repoops.py lines 99-101).
C14_FailedRebaseAborted ==
    \A p \in Procs :
        (run[p].state = "DIVERGED" /\ Finished(p)
            /\ (\E i \in 1 .. Len(run[p].calls) : run[p].calls[i] = <<"rebase", FALSE>>)) =>
            /\ wc[run[p].repo].head = run[p].wc0.head
            /\ ~wc[run[p].repo].rebasing
            /\ ~wc[run[p].repo].dirty
            /\ run[p].err = "PolicyViolationError"

\* C16: a run classified UP_TO_DATE has returned normally, made no rebase
\* and no push call, and left the working copy and the remotes as they were
\* but for the tracking ref the fetch moved.
C16_UpToDateNoAction ==
    \A p \in Procs :
        run[p].state = "UP_TO_DATE" =>
            /\ run[p].pc = "done" /\ run[p].err = None
            /\ Actions(p) = << >>
            /\ wc[run[p].repo] = [run[p].wc0 EXCEPT !.track = run[p].wc0.origin]

C16_Witness ==
    \E p \in Procs :
        /\ run[p].state = "UP_TO_DATE" /\ run[p].pc = "done"
        /\ run[p].wc0.track # run[p].wc0.origin
        /\ wc[run[p].repo].head # << >>

\* C17: a run classified BEHIND that returned normally started from a clean
\* tree whose HEAD was a strict ancestor of the fetched tracking ref, ends
\* with HEAD equal to the tracking ref and made no push call.
C17_BehindEndsAtRemoteHead ==
    \A p \in Procs :
        (run[p].state = "BEHIND" /\ run[p].pc = "done") =>
            /\ ~run[p].wc0.dirty
            /\ IsAncestor(run[p].wc0.head, run[p].remote_sha)
            /\ run[p].wc0.head # run[p].remote_sha
            /\ wc[run[p].repo].track = run[p].remote_sha
            /\ wc[run[p].repo].head = wc[run[p].repo].track
            /\ "push" \notin CallNames(p)
            /\ wc[run[p].repo].relay = run[p].wc0.relay

C17_Witness ==
    \E p \in Procs :
        /\ run[p].state = "BEHIND" /\ run[p].pc = "done"
        /\ Len(wc[run[p].repo].head) > Len(run[p].wc0.head)
        /\ wc[run[p].repo].head = run[p].wc0.origin

----------------------------------------------------------------------------
(* Properties of the daemon, the bridge and the CLI *)

\* what the spec calls an enabled repository of a loaded configuration
Enabled(kind, config, r) ==
    IF kind = "bridge"
    THEN config.profile = "home" /\ config.modes[r] = "sealed"
    ELSE config.modes[r] # "nosync"

RECURSIVE EnabledFrom(_, _, _)
EnabledFrom(kind, config, r) ==
    IF r > Len(config.modes) THEN << >>
    ELSE (IF Enabled(kind, config, r) THEN <<r>> ELSE << >>)
         \o EnabledFrom(kind, config, r + 1)

\* C6: no entry point runs the engine or the bridge on a repository whose
\* mode is nosync in the configuration it loaded: a process has a run in
\* progress only on a repository it may sync, and every git call or tree
\* copy is made by such a process.
C6_NosyncNeverSynced ==
    /\ [](\A p \in Procs :
            /\ run[p].pc \notin {"idle", "interrupted"} => proc[p].pc = "syncing"
            /\ proc[p].pc = "syncing" =>
                  proc[p].cfg.modes[run[p].repo] # "nosync"
            /\ \A i \in 1 .. Len(proc[p].attempted) :
                  proc[p].cfg.modes[proc[p].attempted[i]] # "nosync")
    /\ [][\A p \in Procs :
            Len(run'[p].calls) > Len(run[p].calls) =>
                /\ proc[p].pc = "syncing"
                /\ proc[p].cfg.modes[run[p].repo] # "nosync"]_vars

C6_Witness ==
    \E p \in Procs :
        /\ proc[p].kind = "daemon" /\ proc[p].pc = "sleep"
        /\ proc[p].cfg # NoConfig
        /\ proc[p].cfg.modes[1] = "nosync"
        /\ proc[p].attempted = <<2>>

\* C7: when a daemon or bridge cycle ends, every enabled repository of the
\* loaded configuration has been attempted exactly once, in declared order,
\* whatever the outcome of the earlier ones.
C7_EveryEnabledRepoAttempted ==
    \A p \in Procs :
        (proc[p].kind \in Families /\ proc[p].pc = "sleep"
            /\ proc[p].cfg # NoConfig) =>
            /\ proc[p].attempted = EnabledFrom(proc[p].kind, proc[p].cfg, 1)
            /\ Len(proc[p].outcomes) = Len(proc[p].attempted)

C7_Witness ==
    \E p \in Procs :
        /\ proc[p].pc = "sleep"
        /\ Len(proc[p].outcomes) >= 2
        /\ proc[p].outcomes[1] # None

\* C8: at most one process of a family is inside its loop at a time, and
\* that process holds the family's lock.
C8_OneInstancePerFamily ==
    \A k \in Families :
        /\ Cardinality({p \in Procs : proc[p].kind = k /\ proc[p].pc \in LoopPcs}) <= 1
        /\ \A p \in Procs :
              (proc[p].kind = k /\ proc[p].pc \in LoopPcs) => lock[k] = p

C8_Witness ==
    \E p, q \in Procs :
        /\ p # q /\ proc[p].kind = proc[q].kind
        /\ proc[p].pc \in LoopPcs /\ proc[q].pc = "acquire"

\* C9 as stated: a scheduler process started while another held the lock
\* never gets into the loop.
C9_StartedWhileHeldNeverRuns ==
    \A p \in Procs :
        (proc[p].kind = "daemon" /\ proc[p].heldAtStart) => proc[p].pc \notin LoopPcs

\* C9 amended: a scheduler process that finds the lock held until its
\* acquisition times out exits with status 1; while it waits and after the
\* timeout it has loaded no configuration, started no cycle and made no git
\* call; it enters the loop only by an attempt that finds the lock free.
C9_TimeoutExitsNonZero ==
    /\ [](\A p \in Procs :
            /\ proc[p].pc = "acquire" =>
                  /\ proc[p].cfg = NoConfig /\ proc[p].attempted = << >>
                  /\ run[p] = IdleRun
            /\ (proc[p].pc = "exited" /\ proc[p].why = "Timeout") =>
                  /\ proc[p].exit = 1
                  /\ run[p] = IdleRun)
    /\ [][\A p \in Procs :
            (proc[p].pc = "acquire" /\ lock[proc[p].kind] # 0) =>
                /\ proc'[p].pc \in {"acquire", "exited"}
                /\ run'[p] = run[p]]_vars

C9_Witness ==
    \E p, q \in Procs :
        /\ proc[p].kind = "daemon" /\ proc[p].pc = "exited"
        /\ proc[p].why = "Timeout"
        /\ lock["daemon"] = q /\ proc[q].pc \in LoopPcs

\* C10: a lock is held only by a process of its family that is inside the
\* loop; a process that left the loop, by an interrupt or by an exception,
\* holds no lock, so the next process to start can take it.
C10_LockReleasedOnExit ==
    \A k \in Families :
        lock[k] # 0 => (proc[lock[k]].kind = k /\ proc[lock[k]].pc \in LoopPcs)

C10_Witness ==
    \E p, q \in Procs :
        /\ p < q /\ proc[p].pc = "exited"
        /\ proc[p].why \in {"KeyboardInterrupt", "ConfigError"}
        /\ proc[q].kind = proc[p].kind /\ lock[proc[q].kind] = q

\* C15: when the remote rejects the push of an AHEAD repository in a daemon
\* cycle, the run ends in GitError while the daemon stays in its loop with
\* the lock; the cycle goes on to the next repository; and a following cycle
\* that loads a configuration in which the repository is still enabled
\* attempts it again.
C15_RejectedPushRetriedNextCycle ==
    /\ [](\A p \in Procs :
            (proc[p].kind = "daemon" /\ proc[p].pc = "sleep"
                /\ proc[p].cfg # NoConfig) =>
                \A r \in proc[p].last :
                    Enabled("daemon", proc[p].cfg, r) =>
                        \E i \in 1 .. Len(proc[p].attempted) : proc[p].attempted[i] = r)
    /\ [][\A p \in Procs :
            (proc[p].kind = "daemon" /\ run[p].pc = "push"
                /\ run[p].state = "AHEAD" /\ run'[p].pc = "failed") =>
                /\ run'[p].err = "GitError"
                /\ proc'[p] = proc[p]
                /\ lock' = lock]_vars
    /\ [][\A p \in Procs :
            (proc[p].kind = "daemon" /\ proc[p].pc = "syncing"
                /\ PushRejected(p) /\ proc'[p].pc # "syncing") =>
                \/ proc'[p].why = "KeyboardInterrupt"
                \/ /\ proc'[p].pc = "next_repo"
                   /\ run[p].repo \in proc'[p].rejected
                   /\ lock'["daemon"] = p]_vars

C15_Witness ==
    \E p \in Procs :
        /\ proc[p].kind = "daemon" /\ proc[p].pc = "syncing"
        /\ run[p].repo \in proc[p].last
        /\ run[p].state = "AHEAD" /\ run[p].pc = "push"
        /\ Succeeded(p, "fetch")

----------------------------------------------------------------------------
(* Properties of the path policy *)

\* C18 as stated: the matcher compiled by build_pathspec matches no path
\* that matches an exclude pattern, whatever the include list and the order
\* of the patterns.
C18_ExcludeOverridesInclude ==
    fs.built =>
        \A path \in fs.matched :
            \A i \in 1 .. Len(fs.exclude) : ~gitwildmatch(fs.exclude[i], path)

\* C19 as stated: both the matcher of build_pathspec and safe_copy_tree
\* admit, under an empty include list, every path that matches no exclude
\* pattern and, under a non-empty one, exactly the paths that match some
\* include pattern and no exclude pattern.
C19_OpenAndClosedPolicy ==
    LET admitted ==
            {f \in fs.src :
                /\ fs.include # << >> =>
                      \E i \in 1 .. Len(fs.include) : gitwildmatch(fs.include[i], f)
                /\ \A i \in 1 .. Len(fs.exclude) : ~gitwildmatch(fs.exclude[i], f)}
    IN  /\ fs.built => fs.matched = admitted
        /\ fs.copied => fs.dst = admitted

\* C20: once safe_copy_tree has returned, the files under dst are exactly
\* the files of src that match an include pattern (when there is one) and
\* no exclude pattern; nothing that was under dst before is left.
C20_CopyYieldsExactlyAdmitted ==
    fs.copied =>
        \A f \in Paths \cup fs.dst \cup fs.dst0 :
            f \in fs.dst <=>
                /\ f \in fs.src
                /\ fs.include = << >>
                      \/ \E i \in 1 .. Len(fs.include) : gitwildmatch(fs.include[i], f)
                /\ ~\E i \in 1 .. Len(fs.exclude) : gitwildmatch(fs.exclude[i], f)

C20_Witness ==
    /\ fs.copied
    /\ fs.include = <<"*.py", "*.md">> /\ fs.exclude = <<"build/**">>
    /\ fs.src = {"a.py", "b.txt", "docs/c.md", "build/artifact.bin"}
    /\ fs.dst0 = {"b.txt", "old.txt"}
    /\ fs.dst = {"a.py", "docs/c.md"}

----------------------------------------------------------------------------
(* Properties of the bridge *)

\* C21 as stated: a file the bridge has just copied onto the relay clone
\* matches no exclude pattern of the repository's path policy.  The bridge
\* hands empty pattern lists to safe_copy_tree (bridge.py lines 55 and 70).
C21_BridgeCopyFiltered ==
    \A p \in Procs :
        (run[p].dir = "p2r" /\ run[p].pc = "b_clean") =>
            \A f \in bc[run[p].repo].relay.files \ run[p].bc0.relay.files :
                \A i \in 1 .. Len(run[p].policy.paths.exclude) :
                    ~gitwildmatch(run[p].policy.paths.exclude[i], f)

\* C22 as stated: a bridge run that returned, and that started with the
\* personal clone ahead and with a tree other than the relay clone's, leaves
\* the relay clone with the personal tree, committed on the relay clone's own
\* history and pushed.  The copy replaces the relay clone's repository
\* metadata by the personal clone's (util/fs.py lines 38-50).
C22_RelayCommitsOnOwnHistory ==
    \A p \in Procs :
        (run[p].dir = "r2p" /\ run[p].pc = "done"
            /\ run[p].bc0.personal.ahead /\ ~run[p].bc0.personal.dirty
            /\ run[p].bc0.personal.files # run[p].bc0.relay.files) =>
            /\ bc[run[p].repo].relay.files = run[p].bc0.personal.files
            /\ bc[run[p].repo].relay.meta = "relay"
            /\ Succeeded(p, "commit") /\ Succeeded(p, "push")

\* C23: the bridge works on a repository only under a configuration whose
\* profile is home and in which the repository's mode is sealed: every
\* bridge run, every git call and tree copy of a bridge process and every
\* change of a clone happens under such a configuration, for that
\* repository.
C23_BridgeOnlyHomeSealed ==
    /\ [](\A p \in Procs :
            (proc[p].kind = "bridge" /\ proc[p].pc = "syncing") =>
                /\ proc[p].cfg.profile = "home"
                /\ \A i \in 1 .. Len(proc[p].attempted) :
                      proc[p].cfg.modes[proc[p].attempted[i]] = "sealed"
                /\ proc[p].cfg.modes[run[p].repo] = "sealed")
    /\ [](\A p \in Procs :
            (proc[p].kind = "bridge" /\ proc[p].pc # "syncing") =>
                run[p].pc \in {"idle", "interrupted"})
    /\ [][\A r \in Repos :
            bc'[r] # bc[r] =>
                \E p \in Procs :
                    /\ proc[p].kind = "bridge" /\ proc[p].pc = "syncing"
                    /\ run[p].repo = r
                    /\ proc[p].cfg.profile = "home"
                    /\ proc[p].cfg.modes[r] = "sealed"]_vars

C23_Witness ==
    \E p \in Procs :
        /\ proc[p].kind = "bridge" /\ proc[p].pc = "syncing"
        /\ proc[p].cfg.modes[1] = "plain" /\ run[p].repo = 2
        /\ Succeeded(p, "copy")

----------------------------------------------------------------------------
(* Properties of the entry points taken together *)

\* an engine invocation is at work on a working copy
InProgress(p) == run[p].pc \notin {"idle", "interrupted", "done", "failed"}

\* C24 as stated: no two engine invocations, of the daemon or of the CLI
\* sync command, are at work on the same working copy at the same time.
\* The CLI sync command takes no lock (cli.py lines 48-71).
C24_OneEnginePerWorkingCopy ==
    \A p, q \in Procs :
        (p # q /\ InProgress(p) /\ InProgress(q)) => run[p].repo # run[q].repo

----------------------------------------------------------------------------
(* Properties of the daemon loop *)

C26_InterruptLetsSyncFinish ==
    \A p \in Procs : run[p].pc # "interrupted"

\* C27 as stated: a daemon whose configuration failed to load in a cycle
\* is not left in its loop.  run_sync_cycle logs the error and returns
\* (daemon.py lines 21-25).
C27_ConfigErrorEndsProcess ==
    \A p \in Procs :
        (proc[p].kind = "daemon" /\ proc[p].pc = "sleep") =>
            proc[p].cfg # NoConfig

\* C28: in a daemon cycle the repositories attempted so far are the first
\* enabled ones in declared order, each but the one being synced has its
\* outcome, the engine is at work only on the last one attempted, and the
\* cycle moves on, or starts a repository's sync, only when no sync of the
\* process is at work.
C28_SequentialInDeclaredOrder ==
    /\ [](\A p \in Procs :
            (proc[p].kind = "daemon"
                /\ proc[p].pc \in {"next_repo", "syncing", "sleep"}
                /\ proc[p].cfg # NoConfig) =>
                LET enabled == EnabledFrom("daemon", proc[p].cfg, 1)
                    n == Len(proc[p].attempted) IN
                /\ n <= Len(enabled)
                /\ proc[p].attempted = SubSeq(enabled, 1, n)
                /\ \A i, j \in 1 .. n : i < j => proc[p].attempted[i] < proc[p].attempted[j]
                /\ IF proc[p].pc = "syncing"
                   THEN /\ Len(proc[p].outcomes) = n - 1
                        /\ run[p].repo = proc[p].attempted[n]
                   ELSE /\ Len(proc[p].outcomes) = n
                        /\ ~InProgress(p))
    /\ [][\A p \in Procs :
            (proc[p].kind = "daemon" /\ proc[p].pc = "syncing"
                /\ proc'[p].pc = "next_repo") => Finished(p)]_vars
    /\ [][\A p \in Procs :
            (proc[p].kind = "daemon" /\ run'[p].pc = "pre_sync"
                /\ run[p].pc # "pre_sync") =>
                /\ run[p].pc = "idle"
                /\ Len(proc[p].outcomes) = Len(proc[p].attempted)]_vars

C28_Witness ==
    \E p \in Procs :
        /\ proc[p].kind = "daemon" /\ proc[p].pc = "syncing"
        /\ proc[p].attempted = <<1, 2>>
        /\ proc[p].outcomes = <<"GitError">>
        /\ run[p].pc = "rebase"

----------------------------------------------------------------------------
(* Properties of the CLI exit status and of the Command Runner *)

\* util/errors.py: the exit_code attribute of each error class
ErrorClasses == {"SealbridgeError", "ConfigError", "GitError",
                 "PolicyViolationError", "SecretFoundError"}

exit_code(err) ==
    CASE err = "SealbridgeError"      -> 1
      [] err = "ConfigError"          -> 2
      [] err = "GitError"             -> 3
      [] err = "PolicyViolationError" -> 4
      [] err = "SecretFoundError"     -> 5

\* C29 as stated: a CLI sync that ended with an error of the taxonomy exits
\* with the exit_code of that error's class, and a successful one with 0.
\* cli.py raises typer.Exit(1) for every error.
C29_ExitCodeIdentifiesErrorClass ==
    \A p \in Procs :
        (proc[p].kind = "cli" /\ proc[p].pc = "exited") =>
            /\ proc[p].why \in ErrorClasses => proc[p].exit = exit_code(proc[p].why)
            /\ proc[p].why \in {None, "nosync"} => proc[p].exit = 0

\* C30: a run_git call that met a missing working directory, a missing git
\* binary, a timeout or, with checking enabled, a non-zero exit raises
\* GitError and nothing else; a call whose command ran to exit code 0
\* returns the process result with its stdout, stderr and exit code.
C30_RunGitFailsWithGitError ==
    cmd.called =>
        LET failed == \/ ~cmd.cwd_is_dir
                      \/ cmd.git = "missing"
                      \/ cmd.git = "found" /\ cmd.timed_out
                      \/ cmd.git = "found" /\ cmd.check /\ cmd.returncode # 0
            succeeded == /\ cmd.cwd_is_dir /\ cmd.git = "found"
                         /\ ~cmd.timed_out /\ cmd.returncode = 0
        IN  /\ failed => cmd.raised = "GitError" /\ cmd.result = NoProcess
            /\ succeeded =>
                  /\ cmd.raised = None
                  /\ cmd.result = [returncode |-> 0, stdout |-> cmd.stdout,
                                   stderr |-> cmd.stderr]

C30_Witness ==
    /\ cmd.called /\ cmd.cwd_is_dir /\ cmd.git = "found" /\ cmd.timed_out
    /\ cmd.check /\ cmd.returncode = 128
    /\ cmd.raised = "GitError" /\ cmd.message = <<"timed out", "">>

----------------------------------------------------------------------------
(* sbboot/policy.py: the write policy of the bootstrap payload.  Paths and  *)
(* patterns are resolved and absolute; ~ stands for the home directory.     *)

WritePaths == {"~/workspace/some_project", "~/workspace/project/main.py",
               "~/workspace/secret/private.key",
               "~/.local/share/sealbridge/bin/age",
               "~/.cache/sealbridge/tmp",
               "~/Documents/some_file.txt",
               "~/Downloads/safe_dir/installer.sh"}

WritePatterns == {"~/workspace/**", "~/workspace/secret/**",
                  "~/Downloads/safe_dir/**", "~/.local/share/sealbridge/bin/*"}

WritePatternLists == SeqsUpTo(WritePatterns, MaxPatterns)

\* fnmatch.fnmatch: * matches every run of characters, slashes included
fnmatch(path, pattern) ==
    CASE pattern = "~/workspace/**" ->
            path \in {"~/workspace/some_project", "~/workspace/project/main.py",
                      "~/workspace/secret/private.key"}
      [] pattern = "~/workspace/secret/**" ->
            path = "~/workspace/secret/private.key"
      [] pattern = "~/Downloads/safe_dir/**" ->
            path = "~/Downloads/safe_dir/installer.sh"
      [] pattern = "~/.local/share/sealbridge/bin/*" ->
            path = "~/.local/share/sealbridge/bin/age"

\* PolicyManager._is_path_excluded
is_path_excluded(exclude, path) ==
    \E i \in 1 .. Len(exclude) : fnmatch(path, exclude[i])

\* PolicyManager._is_path_included
is_path_included(include, path) ==
    IF include = << >> THEN FALSE
    ELSE \E i \in 1 .. Len(include) : fnmatch(path, include[i])

\* PolicyManager._is_path_within_bootstrap_dirs: under the application's
\* data, config, state or cache directory
is_path_within_bootstrap_dirs(path) ==
    path \in {"~/.local/share/sealbridge/bin/age", "~/.cache/sealbridge/tmp"}

check_write_include_first(w) ==
    IF is_path_included(w.include, w.path) THEN [w EXCEPT !.called = TRUE]
    ELSE IF is_path_excluded(w.exclude, w.path)
    THEN [w EXCEPT !.called = TRUE, !.raised = "PolicyViolationError"]
    ELSE IF is_path_within_bootstrap_dirs(w.path) THEN [w EXCEPT !.called = TRUE]
    ELSE [w EXCEPT !.called = TRUE, !.raised = "PolicyViolationError"]

\* PolicyManager.check_write (lines 59-84)
check_write(w) ==
    IF is_path_excluded(w.exclude, w.path)
    THEN [w EXCEPT !.called = TRUE, !.raised = "PolicyViolationError"]
    ELSE IF is_path_included(w.include, w.path) THEN [w EXCEPT !.called = TRUE]
    ELSE IF is_path_within_bootstrap_dirs(w.path) THEN [w EXCEPT !.called = TRUE]
    ELSE [w EXCEPT !.called = TRUE, !.raised = "PolicyViolationError"]

InitWrite ==
    /\ fs = IdleFs
    /\ cmd = IdleCmd
    /\ scn = IdleScn
    /\ gc = IdleGc
    /\ cl = IdleCl
    /\ wc = [r \in Repos |-> CleanCopy]
    /\ bc = [r \in Repos |-> NoClones]
    /\ run = [p \in Procs |-> IdleRun]
    /\ cfgFile = NoConfig
    /\ host = "scheduler"
    /\ proc = [p \in Procs |-> OffProc]
    /\ lock = [f \in Families |-> 0]
    /\ cycleCount = 0
    /\ \E include \in WritePatternLists, exclude \in WritePatternLists,
          path \in WritePaths :
          pw = [IdlePw EXCEPT !.include = include, !.exclude = exclude,
                              !.path = path]

\* one call of check_write returns or raises
call_check_write ==
    /\ ~pw.called
    /\ pw' = check_write(pw)
    /\ UNCHANGED <<cl, wc, bc, run, cfgFile, host, proc, lock, cycleCount, fs,
                   cmd, scn, gc>>

NextWrite == call_check_write

SpecWrite == InitWrite /\ [][NextWrite]_vars

----------------------------------------------------------------------------
(* cryptmode/gitcrypt.py: the git-crypt strategy *)

MaxCalls == 3     \* calls made on the strategy for one repository

\* run_git(["crypt", "unlock"]): the command runs to completion or not
\* (tool missing, timeout); when it runs it exits 0 and unlocks the
\* repository if the key material is at hand, and exits non-zero otherwise.
\* Every failure is a GitError, raised again with the key-material hint.
unlock(g, runs) ==
    LET ok == runs /\ g.key IN
    [g EXCEPT !.ncalls = g.ncalls + 1, !.op = "unlock", !.ran = runs,
              !.before = g.unlocked, !.had_key = g.key,
              !.unlocked = g.unlocked \/ ok,
              !.raised = IF ok THEN None ELSE "GitError",
              !.last_unlock = IF ok THEN "ok" ELSE "GitError",
              !.answer = FALSE]

is_unlocked_trusting(g, runs) ==
    [g EXCEPT !.ncalls = g.ncalls + 1, !.op = "is_unlocked", !.ran = runs,
              !.raised = None,
              !.answer = IF runs THEN g.unlocked ELSE TRUE]

\* run_git(["crypt", "status", "-e"], check=False): exit code 0 if unlocked
\* and non-zero otherwise (line 33); a GitError of the runner is caught and
\* answered with False (lines 36-39)
is_unlocked(g, runs) ==
    [g EXCEPT !.ncalls = g.ncalls + 1, !.op = "is_unlocked", !.ran = runs,
              !.raised = None,
              !.answer = IF runs THEN g.unlocked ELSE FALSE]

InitGitCrypt ==
    /\ fs = IdleFs
    /\ cmd = IdleCmd
    /\ scn = IdleScn
    /\ pw = IdlePw
    /\ cl = IdleCl
    /\ wc = [r \in Repos |-> CleanCopy]
    /\ bc = [r \in Repos |-> NoClones]
    /\ run = [p \in Procs |-> IdleRun]
    /\ cfgFile = NoConfig
    /\ host = "scheduler"
    /\ proc = [p \in Procs |-> OffProc]
    /\ lock = [f \in Families |-> 0]
    /\ cycleCount = 0
    /\ \E u \in BOOLEAN, k \in BOOLEAN :
          gc = [IdleGc EXCEPT !.unlocked = u, !.key = k]

\* GitCrypt.unlock is called and returns or raises
call_unlock ==
    /\ gc.ncalls < MaxCalls
    /\ \E runs \in BOOLEAN : gc' = unlock(gc, runs)
    /\ UNCHANGED <<cl, wc, bc, run, cfgFile, host, proc, lock, cycleCount, fs,
                   cmd, scn, pw>>

\* GitCrypt.is_unlocked is called and returns
call_is_unlocked ==
    /\ gc.ncalls < MaxCalls
    /\ \E runs \in BOOLEAN : gc' = is_unlocked(gc, runs)
    /\ UNCHANGED <<cl, wc, bc, run, cfgFile, host, proc, lock, cycleCount, fs,
                   cmd, scn, pw>>

\* the key material arrives or goes (a GPG key imported, a card removed)
key_change ==
    /\ gc.ncalls < MaxCalls
    /\ gc' = [gc EXCEPT !.key = ~gc.key]
    /\ UNCHANGED <<cl, wc, bc, run, cfgFile, host, proc, lock, cycleCount, fs,
                   cmd, scn, pw>>

NextGitCrypt == call_unlock \/ call_is_unlocked \/ key_change

SpecGitCrypt == InitGitCrypt /\ [][NextGitCrypt]_vars

----------------------------------------------------------------------------
(* Properties of the Secret Gate *)

\* C31: for every report of the scanner tool, GitleaksScanner.scan raises
\* SecretFoundError with one Finding per entry, in the report's order and
\* with each entry's file and line, when the report has an entry, and
\* returns when it has none; NoOpScanner.scan always returns.
C31_ScanRaisesWithFindings ==
    scn.called =>
        /\ (scn.scanner = "gitleaks" /\ scn.tool = "report") =>
              IF scn.report # << >>
              THEN /\ scn.raised = "SecretFoundError"
                   /\ Len(scn.findings) = Len(scn.report)
                   /\ \A i \in 1 .. Len(scn.report) :
                         /\ scn.findings[i].file = scn.report[i].File
                         /\ scn.findings[i].line = scn.report[i].StartLine
              ELSE scn.raised = None /\ scn.findings = << >>
        /\ scn.scanner = "none" => scn.raised = None

C31_Witness ==
    /\ scn.called /\ scn.scanner = "gitleaks" /\ scn.tool = "report"
    /\ Len(scn.report) = MaxFindings
    /\ scn.report[1].File = "config.yaml" /\ scn.report[1].StartLine = 10
    /\ scn.report[2].File = "a.py"
    /\ scn.raised = "SecretFoundError"
    /\ scn.findings[1].file = "config.yaml" /\ scn.findings[1].line = 10

----------------------------------------------------------------------------
(* Properties of the git-crypt strategy *)

\* C32 as stated: is_unlocked answers false after a failed unlock of a
\* locked repository and true after a successful unlock; unlock on an
\* unlocked repository raises nothing and leaves it unlocked.
C32_IsUnlockedFollowsUnlock ==
    /\ (gc.op = "is_unlocked" /\ gc.last_unlock = "GitError" /\ ~gc.before) =>
           ~gc.answer
    /\ (gc.op = "is_unlocked" /\ gc.last_unlock = "ok") => gc.answer
    /\ (gc.op = "unlock" /\ gc.before) => gc.raised = None /\ gc.unlocked

\* C32 amended: is_unlocked answers false after a failed unlock of a locked
\* repository; after a successful unlock it answers true when its status
\* command runs to completion and false when that command cannot be run;
\* unlock on an unlocked repository leaves it unlocked and raises GitError
\* only when the unlock command itself fails.
C32_IsUnlockedFollowsUnlockWhenStatusRuns ==
    /\ (gc.op = "is_unlocked" /\ gc.last_unlock = "GitError" /\ ~gc.before) =>
           ~gc.answer
    /\ (gc.op = "is_unlocked" /\ gc.last_unlock = "ok") => gc.answer = gc.ran
    /\ (gc.op = "unlock" /\ gc.before) =>
           /\ gc.unlocked
           /\ gc.raised \in {None, "GitError"}
           /\ gc.raised = "GitError" => ~(gc.ran /\ gc.had_key)

C32_Witness ==
    /\ gc.op = "is_unlocked" /\ gc.last_unlock = "ok" /\ ~gc.before
    /\ gc.ran /\ gc.answer /\ gc.ncalls = 2

----------------------------------------------------------------------------
(* Properties of sealed repositories *)

\* C33 as stated: a run on a sealed repository, of the engine or of the
\* bridge, classifies, copies, commits or pushes only after a call of the
\* crypto strategy's is_unlocked has returned true in that run.  Neither
\* RepoSync nor RepoBridge calls the crypto strategy.
C33_SealedContentOnlyWhenUnlocked ==
    \A p \in Procs :
        (/\ proc[p].pc = "syncing"
         /\ run[p].repo \in Repos
         /\ proc[p].cfg.modes[run[p].repo] = "sealed"
         /\ CallNames(p) \cap {"rev_parse", "merge_base", "rebase", "copy",
                               "commit", "push"} # {}) =>
            Succeeded(p, "is_unlocked")

----------------------------------------------------------------------------
(* Properties of the bootstrap write policy *)

\* C34: check_write raises PolicyViolationError for a path that matches an
\* exclude pattern, whatever the include patterns; any other path is
\* accepted when it matches an include pattern or lies in an
\* application-managed directory and rejected otherwise.  With no include
\* and the exclude ~/workspace/**, a write under workspace/ is rejected and
\* a write under an application-managed directory accepted.
C34_CheckWriteExcludeFirst ==
    pw.called =>
        LET excluded == \E i \in 1 .. Len(pw.exclude) : fnmatch(pw.path, pw.exclude[i])
            included == \E i \in 1 .. Len(pw.include) : fnmatch(pw.path, pw.include[i])
            managed  == is_path_within_bootstrap_dirs(pw.path)
        IN  /\ excluded => pw.raised = "PolicyViolationError"
            /\ (~excluded /\ (included \/ managed)) => pw.raised = None
            /\ (~excluded /\ ~included /\ ~managed) =>
                  pw.raised = "PolicyViolationError"
            /\ (pw.include = << >> /\ pw.exclude = <<"~/workspace/**">>) =>
                  /\ pw.path = "~/workspace/some_project" =>
                        pw.raised = "PolicyViolationError"
                  /\ pw.path = "~/.local/share/sealbridge/bin/age" =>
                        pw.raised = None

C34_Witness ==
    /\ pw.called
    /\ pw.include = <<"~/workspace/**">> /\ pw.exclude = <<"~/workspace/secret/**">>
    /\ pw.path = "~/workspace/secret/private.key"
    /\ pw.raised = "PolicyViolationError"

----------------------------------------------------------------------------
(* Properties of the sleep between two cycles *)

\* C35 as stated: for every configuration the Defaults model accepts, the
\* time the daemon sleeps lies between interval - interval*jitter and
\* interval + interval*jitter and is not negative, so the sleep step never
\* fails.  The Defaults model accepts every float as jitter.
C35_SleepTimeInRangeAndNonNegative ==
    \A p \in Procs :
        /\ (proc[p].kind = "daemon" /\ proc[p].pc = "sleep") =>
              LET interval == proc[p].main_config.interval_sec
                  jitter   == (interval * proc[p].main_config.jitter_pct) \div 100
              IN  \A t \in SleepTimes("daemon", proc[p].main_config) :
                      /\ interval - jitter <= t /\ t <= interval + jitter
                      /\ t >= 0
        /\ (proc[p].kind = "daemon" /\ proc[p].pc = "exited") =>
              proc[p].why # "ValueError"

----------------------------------------------------------------------------
(* Properties of a bridge cycle with edits on both sides *)

\* C36 as stated: a bridge cycle that started with both clones ahead and
\* different edits of one file ends with both sides holding the relay
\* side's edit, the personal side's edit being discarded.
C36_LastStepWinsRelayContent ==
    \A p \in Procs :
        (/\ run[p].dir = "r2p" /\ run[p].pc = "done"
         /\ run[p].bc0.personal.ahead /\ run[p].bc0.relay.ahead
         /\ run[p].bc0.personal.content # run[p].bc0.relay.content) =>
            /\ bc[run[p].repo].personal.content = run[p].bc0.relay.content
            /\ bc[run[p].repo].relay.content = run[p].bc0.relay.content

\* C36 amended: such a cycle ends with both sides holding the personal
\* side's edit, which the first step (personal-to-relay) wrote over the
\* relay clone and the second step copied back: the relay side's edit is
\* the one discarded.
C36_FirstStepWinsPersonalContent ==
    \A p \in Procs :
        (/\ run[p].dir = "r2p" /\ run[p].pc = "done"
         /\ run[p].bc0.personal.ahead /\ run[p].bc0.relay.ahead
         /\ run[p].bc0.personal.content # run[p].bc0.relay.content) =>
            /\ bc[run[p].repo].personal.content = run[p].bc0.personal.content
            /\ bc[run[p].repo].relay.content = run[p].bc0.personal.content
            /\ "a.py" \in bc[run[p].repo].personal.files
            /\ "a.py" \in bc[run[p].repo].relay.files

C36_Witness ==
    \E p \in Procs :
        /\ run[p].dir = "r2p" /\ run[p].pc = "done"
        /\ run[p].bc0.personal.content = "personal"
        /\ run[p].bc0.relay.content = "relay"
        /\ Succeeded(p, "push")
        /\ bc[run[p].repo].relay.content = "personal"

----------------------------------------------------------------------------
(* Properties of the order of a bridge cycle *)

\* C37 as stated: in a bridge run every call that inspects the ahead state,
\* copies a tree, commits or pushes comes after the fetches of both clones.
\* sync_bridge fetches the relay clone only when the personal-to-relay
\* direction is over.
C37_BothFetchedBeforeMirroring ==
    \A p \in Procs :
        run[p].dir # None =>
            \A i \in 1 .. Len(run[p].calls) :
                run[p].calls[i][1] \in {"status_sb", "copy", "status", "add",
                                        "commit", "push"} =>
                    Cardinality({j \in 1 .. i - 1 :
                                    run[p].calls[j] = <<"fetch", TRUE>>}) = 2

----------------------------------------------------------------------------
(* Properties of a failed git command in a sync run *)

\* C38: in a RepoSync.sync run no push call follows a git command that
\* failed; a DIVERGED run whose rebase failed has made no push call.
C38_NoPushAfterFailedCommand ==
    \A p \in Procs :
        (run[p].dir = None /\ run[p].pc # "idle") =>
            /\ \A i, j \in 1 .. Len(run[p].calls) :
                  (i < j /\ ~run[p].calls[i][2]) => run[p].calls[j][1] # "push"
            /\ (\E i \in 1 .. Len(run[p].calls) : ~run[p].calls[i][2]) =>
                  /\ run[p].pc = "failed" /\ run[p].err = "GitError"
                  /\ ~run[p].calls[Len(run[p].calls)][2]
            /\ (run[p].state = "DIVERGED" /\ ~Succeeded(p, "rebase")) =>
                  "push" \notin CallNames(p)

C38_Witness ==
    \E p \in Procs :
        /\ run[p].dir = None /\ run[p].state = "DIVERGED"
        /\ run[p].pc = "failed"
        /\ run[p].calls[Len(run[p].calls)] = <<"rebase", FALSE>>
        /\ wc[run[p].repo].rebasing
        /\ "push" \notin CallNames(p)

----------------------------------------------------------------------------
(* Properties of the remotes of a sync run *)

\* C39: a push of RepoSync.sync moves only the branch of the remote named
\* relay and leaves HEAD, the personal remote and origin/<branch> as they
\* are; so a run that starts from what a successful AHEAD run left (HEAD
\* pushed to relay and ahead of the personal remote) and reaches the
\* classification classifies AHEAD again and issues another push.
C39_AheadAgainAfterPushToRelay ==
    /\ [][\A p \in Procs :
            (run[p].dir = None /\ run[p].pc = "push"
                /\ run'[p].pc \in {"done", "failed"}) =>
                LET r == run[p].repo IN
                /\ wc'[r].origin = wc[r].origin
                /\ wc'[r].track = wc[r].track
                /\ wc'[r].head = wc[r].head
                /\ run'[p].pc = "done" => wc'[r].relay = wc[r].head]_vars
    /\ [](\A p \in Procs :
            (/\ proc[p].kind = "daemon" /\ proc[p].pc = "syncing"
             /\ run[p].state # None
             /\ run[p].wc0.relay = run[p].wc0.head
             /\ run[p].wc0.head # run[p].wc0.origin
             /\ IsAncestor(run[p].wc0.origin, run[p].wc0.head)) =>
                /\ run[p].state = "AHEAD"
                /\ \/ run[p].pc \in {"push", "done"}
                   \/ /\ run[p].pc = "failed"
                      /\ run[p].calls[Len(run[p].calls)] = <<"push", FALSE>>
                /\ run[p].pc = "done" => Succeeded(p, "push"))

C39_Witness ==
    \E p \in Procs :
        /\ proc[p].kind = "daemon" /\ proc[p].pc = "syncing"
        /\ cycleCount = MaxCycles
        /\ run[p].wc0.relay = run[p].wc0.head
        /\ run[p].wc0.head # run[p].wc0.origin
        /\ run[p].state = "AHEAD" /\ run[p].pc = "done"
        /\ Succeeded(p, "push")

----------------------------------------------------------------------------
(* Properties of the destination of a tree copy *)

\* C40: once safe_copy_tree has returned, a file the destination held
\* before is there only if the source holds it and the policy admits it, be
\* it a file the policy rejects or a file of the metadata directory; and a
\* metadata file of the source that the policy admits is in the
\* destination.
C40_DestinationReplacedMetadataIncluded ==
    fs.copied =>
        LET Admitted(f) ==
                /\ fs.include = << >>
                      \/ \E i \in 1 .. Len(fs.include) : gitwildmatch(fs.include[i], f)
                /\ \A i \in 1 .. Len(fs.exclude) : ~gitwildmatch(fs.exclude[i], f)
        IN  /\ \A f \in fs.dst0 : f \in fs.dst => (f \in fs.src /\ Admitted(f))
            /\ \A f \in fs.dst0 \cap MetaPaths : f \notin fs.src => f \notin fs.dst
            /\ \A f \in fs.src \cap MetaPaths : Admitted(f) => f \in fs.dst

C40_Witness ==
    /\ fs.copied
    /\ fs.include = << >> /\ fs.exclude = <<"build/**">>
    /\ fs.src = {"a.py", "build/gen.py"}
    /\ fs.dst0 = {"build/gen.py", ".git/config"}
    /\ fs.dst = {"a.py"}

====
